---- MODULE Spec2Model ----
(***************************************************************************)
(* The node synchronisation state machine of src/bitcoind.rs               *)
(* (Bitcoind::listen, with_next_message!, idle_message) together with the  *)
(* peer that feeds its inbox.  Blockchain, UtxoSet, Socket and the         *)
(* checkpoint files are collaborators of the bitcoin library; they are     *)
(* modelled by the operations listen() calls on them.  The RPC dispatcher   *)
(* of src/rpc_server.rs (handle_rpc and the procedures of RPC_CALLS) works  *)
(* on the same idle state.                                                  *)
(***************************************************************************)
EXTENDS Integers, Sequences, FiniteSets, TLC

\* ------------------------------------------------------------------ bounds
\* constants::UTXO_SYNC_N_BLOCKS and constants::BLOCKCHAIN_N_FULL_BLOCKS,
\* scaled down to the size of the modelled block tree.
UTXO_SYNC_N_BLOCKS == 2
BLOCKCHAIN_N_FULL_BLOCKS == 1
\* Messages the peer delivers in one run, and messages waiting in the inbox.
MaxMsgs == 4
InboxCap == 2

\* ------------------------------------------------------- the block universe
\* Block hashes are 0..6; 0 is the genesis block of the network.  The tree:
\*      0 - 1 - 2 - 3 - 6
\*            \ 4 - 5
Genesis == 0
ParentOf == <<0, 1, 2, 1, 4, 3>>
Blocks == DOMAIN ParentOf
Nonces == {7, 9}
HeaderLists == {<<>>, <<1, 2>>, <<3>>, <<4, 5>>, <<5, 4>>}

RECURSIVE Height(_)
Height(h) == IF h = Genesis THEN 0 ELSE 1 + Height(ParentOf[h])

\* h, its parent, ... down to the genesis block.
RECURSIVE PathToGenesis(_)
PathToGenesis(h) ==
  IF h = Genesis THEN <<Genesis>> ELSE <<h>> \o PathToGenesis(ParentOf[h])

Range(s) == {s[i] : i \in DOMAIN s}

Reverse(s) == [i \in 1..Len(s) |-> s[Len(s) + 1 - i]]

RECURSIVE SelectIn(_, _)
SelectIn(s, S) ==
  IF s = <<>> THEN <<>>
  ELSE IF Head(s) \in S THEN <<Head(s)>> \o SelectIn(Tail(s), S)
  ELSE SelectIn(Tail(s), S)

\* ------------------------------------------------------------ Blockchain
\* A blockchain is [nodes, tip, txdata]: the known headers, the best tip and
\* the nodes whose has_txdata flag is set.
NoChain == [nodes |-> {}, tip |-> Genesis, txdata |-> {}]

BlockchainNew == [nodes |-> {Genesis}, tip |-> Genesis, txdata |-> {Genesis}]

OnMainChain(bc, h) == h \in Range(PathToGenesis(bc.tip))

\* add_header: an error (no change) for a duplicate or an orphan; the best
\* tip moves to the new node when it has more work (is higher).
AddHeader(bc, h) ==
  IF h \in bc.nodes \/ ParentOf[h] \notin bc.nodes THEN bc
  ELSE [bc EXCEPT !.nodes = @ \cup {h},
                  !.tip = IF Height(h) > Height(@) THEN h ELSE @]

\* AddHeaders that gives up the reply at the first header add_header refuses.
RECURSIVE AddHeadersStopAtError(_, _)
AddHeadersStopAtError(bc, hs) ==
  IF hs = <<>> \/ AddHeader(bc, Head(hs)) = bc THEN bc
  ELSE AddHeadersStopAtError(AddHeader(bc, Head(hs)), Tail(hs))

RECURSIVE AddHeaders(_, _)
AddHeaders(bc, hs) ==
  IF hs = <<>> THEN bc ELSE AddHeaders(AddHeader(bc, Head(hs)), Tail(hs))

\* add_block: add_header that also stores the block's transactions.
AddBlock(bc, b) ==
  IF b \in bc.nodes \/ ParentOf[b] \notin bc.nodes THEN bc
  ELSE [AddHeader(bc, b) EXCEPT !.txdata = @ \cup {b}]

\* add_txdata: an error (no change) unless the block is known.
AddTxdata(bc, b) ==
  IF b \in bc.nodes THEN [bc EXCEPT !.txdata = @ \cup {b}] ELSE bc

RemoveTxdata(bc, hs) == [bc EXCEPT !.txdata = @ \ hs]

\* rev_iter(hash): the node and its ancestors.
RevIter(bc, h) == IF h \in bc.nodes THEN PathToGenesis(h) ELSE <<>>

\* iter(hash): the node and what follows it along the next links; a node off
\* the best chain in this tree is a stale tip, with no next link.
Iter(bc, h) ==
  IF h \notin bc.nodes THEN <<>>
  ELSE IF OnMainChain(bc, h)
       THEN LET best == Reverse(PathToGenesis(bc.tip))
            IN SubSeq(best, Height(h) + 1, Len(best))
       ELSE <<h>>

\* rev_stale_iter(hash): the node and its ancestors that are off the best chain.
RECURSIVE RevStaleIter(_, _)
RevStaleIter(bc, h) ==
  IF h \notin bc.nodes \/ OnMainChain(bc, h) THEN <<>>
  ELSE <<h>> \o RevStaleIter(bc, ParentOf[h])

LocatorHashes(bc) == PathToGenesis(bc.tip)

\* --------------------------------------------------------------- UtxoSet
\* A UTXO set is [last_hash, applied]: its tip and the blocks whose outputs
\* it holds.
NoUtxoSet == [last_hash |-> Genesis, applied |-> {}]

UtxoSetNew == [last_hash |-> Genesis, applied |-> {}]

\* update(block): false (no change) unless the block extends last_hash and
\* validates.
UtxoUpdate(us, b, valid) ==
  IF valid /\ us.last_hash = ParentOf[b]
  THEN [ok |-> TRUE, utxo |-> [last_hash |-> b, applied |-> us.applied \cup {b}]]
  ELSE [ok |-> FALSE, utxo |-> us]

\* rewind(block): false (no change) unless the block is last_hash and its
\* spent outputs can be restored.
UtxoRewind(us, b, restorable) ==
  IF restorable /\ us.last_hash = b /\ b # Genesis
  THEN [ok |-> TRUE,
        utxo |-> [last_hash |-> ParentOf[b], applied |-> us.applied \ {b}]]
  ELSE [ok |-> FALSE, utxo |-> us]

\* ------------------------------------------------------------- messages
Msg(tag, arg) == [tag |-> tag, arg |-> arg]

NoOpTags == {"verack", "addr", "getdata", "getblocks", "getheaders", "pong"}

PeerMessages ==
  {Msg("headers", hs) : hs \in HeaderLists}
  \cup {Msg("block", <<b>>) : b \in Blocks}
  \cup {Msg("ping", <<n>>) : n \in Nonces}
  \cup {Msg("notfound", <<>>), Msg("version", <<>>), Msg("inv", <<3>>)}
  \cup {Msg(t, <<>>) : t \in NoOpTags}


\* ------------------------------------------------------- checkpoint files
\* What a run that synchronised to block 2 saves.
CkptChain == [nodes |-> {0, 1, 2}, tip |-> 2, txdata |-> {2}]
CkptUtxoSet == [last_hash |-> 2, applied |-> {1, 2}]
\* What a run that synchronised its headers to block 6 saves when the body of
\* the tip was answered by a notfound.
LongChain == [nodes |-> {0, 1, 2, 3, 6}, tip |-> 6, txdata |-> {}]

VARIABLES
  state,        \* the StartupState variant
  pc,           \* the position inside the current phase
  ret,          \* "running", or "Err" once listen() has returned
  blockchain,   \* idle_state.blockchain
  utxo_set,     \* idle_state.utxo_set
  inbox,        \* idle_state.net_chan: messages delivered and not yet taken
  disk,         \* the two checkpoint files
  failed,       \* SyncUtxoSet: failed
  cache,        \* SyncUtxoSet: cache
  iter,         \* SyncUtxoSet: what blockchain.iter(last_hash) still yields
  block_count,  \* SyncUtxoSet: block_count
  recv_data,    \* SyncUtxoSet: hashes of the blocks in recv_data, as received
  inv_to_add_data, \* SyncUtxoSet: inv_to_add_data
  nDelivered,   \* history: messages the peer has delivered
  sentNow,      \* history: what the last step sent on the socket
  nHanded,      \* history: messages the pumps have handed to an arm
  lastHanded,   \* history: delivery number of the last message so handed
  loaded,       \* history: which checkpoints LoadFromDisk could load
  firstReply,   \* history: the first `headers` reply consumed ("none" before it)
  pingRun,      \* history: the pings Idle took since its last other message
  events,       \* history: failure events of the current forward pass
  updateCalls,  \* history: the update calls of the last batch, in call order, with their results
  lastBatch,    \* history: the last batch: its request, the UTXO set before it
  bodyReplies,  \* history: the replies the body pump consumed
  writes,       \* history: checkpoint writes attempted
  idleErrs,     \* history: the kinds of error Idle's dispatches have met
  pruneErrs,    \* history: the errors the pruning of block bodies has met
  pass,         \* history: the forward pass: where it starts, the nodes it walks, its requests, its update calls
  config,       \* idle_state.config (coinjoin_on)
  coinjoin,     \* idle_state.coinjoin: the session manager, once started
  wallet,       \* idle_state.wallet: the accounts it holds
  readers,      \* RPC procedures holding read access to blockchain or utxo_set
  rpcPc,        \* "idle", or "pending"/"done" for the request in rpcReq
  rpcReq,       \* the jsonrpc::Request handed to handle_rpc
  rpcCalled,    \* history: the procedure handle_rpc invoked, with its parameters
  rpcUpdated,   \* history: the procedure called update_all() on the session manager
  rpcResult     \* the JsonResult handle_rpc returned

idleVars == <<blockchain, utxo_set>>
localVars == <<failed, cache, iter, block_count, recv_data, inv_to_add_data>>
pumpHist == <<loaded, pingRun, writes>>
batchHist == <<events, updateCalls, lastBatch>>
histVars == <<loaded, firstReply, pingRun, events, updateCalls, lastBatch, bodyReplies,
              writes>>
vars == <<state, pc, ret, blockchain, utxo_set, inbox, disk, failed, cache, iter,
          block_count, recv_data, inv_to_add_data, nDelivered, sentNow, nHanded,
          lastHanded, loaded, firstReply, pingRun, events, updateCalls, lastBatch,
          bodyReplies, writes, idleErrs, pruneErrs, pass, config, coinjoin, wallet,
          readers, rpcPc, rpcReq, rpcCalled, rpcUpdated, rpcResult>>

passVars == <<pruneErrs, pass>>

\* What the RPC dispatcher owns or answers with.
rpcVars == <<config, coinjoin, wallet, readers, rpcPc, rpcReq, rpcCalled, rpcUpdated,
             rpcResult>>

\* The session manager: its sessions, the current one (0: none) and those
\* whose state is Complete.
NoServer == [started |-> FALSE, sessions |-> {}, current |-> 0, complete |-> {}]

NoCall == [name |-> "", params |-> <<>>]

NoRequest == [method |-> "", params |-> <<>>]

\* A JSON value is [t, v]: its type and its text, as a sequence of tokens.
JNull == [t |-> "null", v |-> <<>>]

NoError == [code |-> 0, message |-> "", data |-> <<>>]

\* JsonResult: Ok(value) or Err(error).
Ok(val) == [ok |-> TRUE, val |-> val, err |-> NoError]

Err(e) == [ok |-> FALSE, val |-> JNull, err |-> e]

NoResult == Ok(JNull)

NoPass == [from |-> Genesis, chain |-> <<>>, batches |-> <<>>, calls |-> <<>>]

NoBatch == [request |-> <<>>, before |-> NoUtxoSet, notfound |-> 0]

NoRun == [pings |-> <<>>, sent |-> <<>>, from |-> <<NoChain, NoUtxoSet>>]

File(ok, val) == [ok |-> ok, val |-> val]

Init ==
  /\ state = "Init"
  /\ pc = "run"
  /\ ret = "running"
  /\ blockchain = NoChain
  /\ utxo_set = NoUtxoSet
  /\ inbox = <<>>
  /\ disk \in [blockchain : {File(FALSE, NoChain), File(TRUE, CkptChain)},
               utxo_set : {File(FALSE, NoUtxoSet), File(TRUE, CkptUtxoSet)}]
  /\ failed = FALSE
  /\ cache = <<>>
  /\ iter = <<>>
  /\ block_count = 0
  /\ recv_data = <<>>
  /\ inv_to_add_data = <<>>
  /\ nDelivered = 0
  /\ sentNow = <<>>
  /\ nHanded = 0
  /\ lastHanded = 0
  /\ loaded = <<FALSE, FALSE>>
  /\ firstReply = "none"
  /\ pingRun = NoRun
  /\ events = {}
  /\ updateCalls = <<>>
  /\ lastBatch = NoBatch
  /\ bodyReplies = <<>>
  /\ writes = <<>>
  /\ idleErrs = {}
  /\ pruneErrs = {}
  /\ pass = NoPass
  /\ config = [coinjoin_on |-> FALSE]
  /\ coinjoin = NoServer
  /\ wallet = {}
  /\ readers = 0
  /\ rpcPc = "idle"
  /\ rpcReq = NoRequest
  /\ rpcCalled = NoCall
  /\ rpcUpdated = FALSE
  /\ rpcResult = NoResult

\* sock.send_message(m), for each m of ms in turn; an I/O error is swallowed
\* by consume_err.
Send(ms) == sentNow' = ms

\* The network reader pushes the peer's next message onto the channel.
PeerDeliver ==
  /\ ret = "running"
  /\ state # "Init"
  /\ nDelivered < MaxMsgs
  /\ Len(inbox) < InboxCap
  /\ \E m \in PeerMessages :
       inbox' = Append(inbox, [seq |-> nDelivered + 1, tag |-> m.tag, arg |-> m.arg])
  /\ nDelivered' = nDelivered + 1
  /\ UNCHANGED <<state, pc, ret, idleVars, disk, localVars, sentNow, nHanded,
                 lastHanded, histVars>>
  /\ UNCHANGED <<idleErrs, passVars, rpcVars>>

\* StartInit that notes the error of self.start() and goes on to load.
StartInitGoesOn ==
  /\ ret = "running"
  /\ state = "Init"
  /\ state' = "LoadFromDisk"
  /\ ret' \in {"running", "Err"}
  /\ Send(<<>>)
  /\ UNCHANGED <<pc, idleVars, inbox, disk, localVars, nDelivered, nHanded, lastHanded,
                 histVars>>
  /\ UNCHANGED <<idleErrs, passVars, rpcVars>>

\* Init: self.start() opens the socket; try! returns its error.
StartInit ==
  /\ ret = "running"
  /\ state = "Init"
  /\ \/ state' = "LoadFromDisk" /\ ret' = ret
     \/ ret' = "Err" /\ state' = state
  /\ Send(<<>>)
  /\ UNCHANGED <<pc, idleVars, inbox, disk, localVars, nDelivered, nHanded, lastHanded,
                 histVars>>
  /\ UNCHANGED <<idleErrs, passVars, rpcVars>>

\* LoadFromDisk that starts both from genesis when either load fails.
LoadFromDiskAllOrNothing ==
  /\ ret = "running"
  /\ state = "LoadFromDisk"
  /\ LET both == disk.blockchain.ok /\ disk.utxo_set.ok IN
       /\ blockchain' = IF both THEN disk.blockchain.val ELSE BlockchainNew
       /\ utxo_set' = IF both THEN disk.utxo_set.val ELSE UtxoSetNew
  /\ loaded' = <<disk.blockchain.ok, disk.utxo_set.ok>>
  /\ state' = "SyncBlockchain"
  /\ pc' = "send"
  /\ Send(<<>>)
  /\ UNCHANGED <<ret, inbox, disk, localVars, nDelivered, nHanded, lastHanded,
                 firstReply, pingRun, batchHist, bodyReplies, writes>>
  /\ UNCHANGED <<idleErrs, passVars, rpcVars>>

\* LoadFromDisk: each checkpoint, or the genesis value when its load fails.
LoadFromDisk ==
  /\ ret = "running"
  /\ state = "LoadFromDisk"
  /\ blockchain' = IF disk.blockchain.ok THEN disk.blockchain.val ELSE BlockchainNew
  /\ utxo_set' = IF disk.utxo_set.ok THEN disk.utxo_set.val ELSE UtxoSetNew
  /\ loaded' = <<disk.blockchain.ok, disk.utxo_set.ok>>
  /\ state' = "SyncBlockchain"
  /\ pc' = "send"
  /\ Send(<<>>)
  /\ UNCHANGED <<ret, inbox, disk, localVars, nDelivered, nHanded, lastHanded,
                 firstReply, pingRun, batchHist, bodyReplies, writes>>
  /\ UNCHANGED <<idleErrs, passVars, rpcVars>>

\* WithNextMessage that puts a message matching no pattern back on the channel.
WithNextMessageRequeue(m, patterns) ==
  /\ nDelivered' = nDelivered
  /\ IF m.tag \in patterns
     THEN /\ inbox' = Tail(inbox)
          /\ nHanded' = nHanded + 1
          /\ lastHanded' = m.seq
     ELSE /\ inbox' = Append(Tail(inbox), m)
          /\ Send(<<>>)
          /\ UNCHANGED <<state, pc, ret, idleVars, disk, localVars, nHanded, lastHanded,
                         histVars>>

\* with_next_message!: take the next message from the channel; hand it to its
\* arm when its tag is one of the patterns, drop it (`_ => {}`) and go round
\* the loop otherwise.
WithNextMessage(m, patterns) ==
  /\ inbox' = Tail(inbox)
  /\ nDelivered' = nDelivered
  /\ IF m.tag \in patterns
     THEN /\ nHanded' = nHanded + 1
          /\ lastHanded' = m.seq
     ELSE /\ Send(<<>>)
          /\ UNCHANGED <<state, pc, ret, idleVars, disk, localVars, nHanded, lastHanded,
                         histVars>>

\* PingArm that sends no reply.
PingArmSilent(m) ==
  /\ Send(<<>>)
  /\ UNCHANGED <<state, pc, ret, idleVars, disk, localVars, histVars>>

\* The `message::Ping(nonce)` arm of the three pumps.
PingArm(m) ==
  /\ Send(<<Msg("pong", m.arg)>>)
  /\ UNCHANGED <<state, pc, ret, idleVars, disk, localVars, histVars>>

\* SyncBlockchain: request headers from the locator of the best chain.
SendGetHeaders ==
  /\ ret = "running"
  /\ state = "SyncBlockchain"
  /\ pc = "send"
  /\ Send(<<Msg("getheaders", LocatorHashes(blockchain))>>)
  /\ pc' = "wait"
  /\ UNCHANGED <<state, ret, idleVars, inbox, disk, localVars, nDelivered, nHanded,
                 lastHanded, histVars>>
  /\ UNCHANGED <<idleErrs, passVars, rpcVars>>

\* The `message::Headers(headers)` arm: add each header; done when the reply
\* was empty.
HeadersArm(m) ==
  /\ blockchain' = AddHeaders(blockchain, m.arg)
  /\ IF Len(m.arg) = 0
     THEN state' = "SyncUtxoSet" /\ pc' = "rewind" /\ cache' = <<>>
     ELSE state' = state /\ pc' = "send" /\ cache' = cache
  /\ firstReply' = IF firstReply # "none" THEN firstReply
                   ELSE IF Len(m.arg) = 0 THEN "empty" ELSE "nonempty"
  /\ Send(<<>>)
  /\ UNCHANGED <<ret, utxo_set, disk, failed, iter, block_count, recv_data,
                 inv_to_add_data, pumpHist, batchHist, bodyReplies>>

\* SyncBlockchain: the pump that waits for one `headers` reply.
HeadersPump ==
  /\ ret = "running"
  /\ state = "SyncBlockchain"
  /\ pc = "wait"
  /\ inbox # <<>>
  /\ LET m == Head(inbox) IN
       /\ WithNextMessage(m, {"headers", "ping"})
       /\ CASE m.tag = "headers" -> HeadersArm(m)
            [] m.tag = "ping" -> PingArm(m)
            [] OTHER -> TRUE
  /\ UNCHANGED <<idleErrs, passVars, rpcVars>>

\* utxo_set.rewind on each block of rev_stale_iter, in turn.
RECURSIVE RewindAll(_, _, _)
RewindAll(us, stale, oks) ==
  IF stale = <<>> THEN us
  ELSE RewindAll(UtxoRewind(us, Head(stale), Head(oks)).utxo, Tail(stale), Tail(oks))

\* SyncUtxoSet, up to the forward loop: unwind the stale blocks and start the
\* iteration over the best chain after last_hash.
UtxoSetBegin ==
  /\ ret = "running"
  /\ state = "SyncUtxoSet"
  /\ pc = "rewind"
  /\ LET stale == RevStaleIter(blockchain, utxo_set.last_hash) IN
       \E oks \in [1..Len(stale) -> BOOLEAN] :
         LET us == RewindAll(utxo_set, stale, oks)
             it == Iter(blockchain, us.last_hash)
         IN /\ utxo_set' = us
            /\ iter' = IF it = <<>> THEN <<>> ELSE Tail(it)
  /\ failed' = FALSE
  /\ cache' = <<>>
  /\ events' = {}
  /\ pc' = "forward"
  /\ Send(<<>>)
  /\ UNCHANGED <<state, ret, blockchain, inbox, disk, block_count, recv_data,
                 inv_to_add_data, nDelivered, nHanded, lastHanded, loaded, firstReply,
                 pingRun, updateCalls, lastBatch, bodyReplies, writes>>
  /\ pass' = [from |-> utxo_set'.last_hash, chain |-> iter', batches |-> <<>>,
               calls |-> <<>>]
  /\ UNCHANGED <<idleErrs, pruneErrs, rpcVars>>

\* UtxoForwardBatch that also requests what is left when the chain ends
\* before the count reaches a multiple of UTXO_SYNC_N_BLOCKS.
UtxoForwardBatchFlush ==
  /\ ret = "running"
  /\ state = "SyncUtxoSet"
  /\ pc = "forward"
  /\ Len(cache) + Len(iter) >= 1
  /\ LET n == IF Len(cache) + Len(iter) >= UTXO_SYNC_N_BLOCKS
              THEN UTXO_SYNC_N_BLOCKS - Len(cache) ELSE Len(iter) IN
       /\ cache' = cache \o SubSeq(iter, 1, n)
       /\ iter' = SubSeq(iter, n + 1, Len(iter))
  /\ Send(<<Msg("getdata", cache')>>)
  /\ block_count' = 0
  /\ recv_data' = <<>>
  /\ lastBatch' = [request |-> cache', before |-> utxo_set, notfound |-> 0]
  /\ updateCalls' = <<>>
  /\ pc' = "batch"
  /\ UNCHANGED <<state, ret, idleVars, inbox, disk, failed, inv_to_add_data,
                 nDelivered, nHanded, lastHanded, loaded, firstReply, pingRun, events,
                 bodyReplies, writes>>
  /\ pass' = [pass EXCEPT !.batches = Append(@, cache')]
  /\ UNCHANGED <<idleErrs, pruneErrs, rpcVars>>

\* The forward loop up to its next getdata: the nodes are pushed onto the
\* cache, which is sent as one request when count reaches a multiple of
\* UTXO_SYNC_N_BLOCKS (the cache then holds that many items).
UtxoForwardBatch ==
  /\ ret = "running"
  /\ state = "SyncUtxoSet"
  /\ pc = "forward"
  /\ Len(cache) + Len(iter) >= UTXO_SYNC_N_BLOCKS
  /\ LET n == UTXO_SYNC_N_BLOCKS - Len(cache) IN
       /\ cache' = cache \o SubSeq(iter, 1, n)
       /\ iter' = SubSeq(iter, n + 1, Len(iter))
  /\ Send(<<Msg("getdata", cache')>>)
  /\ block_count' = 0
  /\ recv_data' = <<>>
  /\ lastBatch' = [request |-> cache', before |-> utxo_set, notfound |-> 0]
  /\ updateCalls' = <<>>
  /\ pc' = "batch"
  /\ UNCHANGED <<state, ret, idleVars, inbox, disk, failed, inv_to_add_data,
                 nDelivered, nHanded, lastHanded, loaded, firstReply, pingRun, events,
                 bodyReplies, writes>>
  /\ pass' = [pass EXCEPT !.batches = Append(@, cache')]
  /\ UNCHANGED <<idleErrs, pruneErrs, rpcVars>>

\* The `message::Block(block)` arm of the batch pump.
BatchBlockArm(m) ==
  /\ recv_data' = IF m.arg[1] \in Range(recv_data) THEN recv_data
                  ELSE Append(recv_data, m.arg[1])
  /\ block_count' = block_count + 1
  /\ pc' = IF block_count' < UTXO_SYNC_N_BLOCKS THEN "batch" ELSE "apply"
  /\ Send(<<>>)
  /\ UNCHANGED <<state, ret, idleVars, disk, failed, cache, iter, inv_to_add_data,
                 histVars>>

\* The `message::NotFound(_)` arm of the batch pump.
BatchNotFoundArm(m) ==
  /\ failed' = TRUE
  /\ block_count' = block_count + 1
  /\ pc' = IF block_count' < UTXO_SYNC_N_BLOCKS THEN "batch" ELSE "apply"
  /\ events' = events \cup {"notfound"}
  /\ lastBatch' = [lastBatch EXCEPT !.notfound = @ + 1]
  /\ Send(<<>>)
  /\ UNCHANGED <<state, ret, idleVars, disk, cache, iter, recv_data, inv_to_add_data,
                 loaded, firstReply, pingRun, updateCalls, bodyReplies, writes>>

\* The pump that waits for the UTXO_SYNC_N_BLOCKS replies to a batch.
BatchPump ==
  /\ ret = "running"
  /\ state = "SyncUtxoSet"
  /\ pc = "batch"
  /\ inbox # <<>>
  /\ LET m == Head(inbox) IN
       /\ WithNextMessage(m, {"block", "notfound", "ping"})
       /\ CASE m.tag = "block" -> BatchBlockArm(m)
            [] m.tag = "notfound" -> BatchNotFoundArm(m)
            [] m.tag = "ping" -> PingArm(m)
            [] OTHER -> TRUE
  /\ UNCHANGED <<idleErrs, passVars, rpcVars>>

\* ApplyBatch that walks recv_data, in receipt order, instead of the cache.
RECURSIVE ApplyReceived(_, _, _, _)
ApplyReceived(invs, recv, us, oks) ==
  IF recv = <<>>
  THEN [utxo |-> us, failed |-> Range(invs) # {}, calls |-> <<>>,
        events |-> IF Range(invs) # {} THEN {"missing"} ELSE {}]
  ELSE IF Head(recv) \in Range(invs)
  THEN LET r == UtxoUpdate(us, Head(recv), Head(oks))
           rest == ApplyReceived(SelectIn(invs, Range(invs) \ {Head(recv)}), Tail(recv),
                                 r.utxo, Tail(oks))
       IN [utxo |-> rest.utxo,
           failed |-> rest.failed \/ ~r.ok,
           calls |-> <<[hash |-> Head(recv), ok |-> r.ok]>> \o rest.calls,
           events |-> rest.events \cup (IF r.ok THEN {} ELSE {"update"})]
  ELSE ApplyReceived(invs, Tail(recv), us, oks)

\* ApplyBatch whose `None` arm does not set failed.
RECURSIVE ApplyBatchIgnoreMissing(_, _, _, _)
ApplyBatchIgnoreMissing(invs, recv, us, oks) ==
  IF invs = <<>>
  THEN [utxo |-> us, failed |-> FALSE, calls |-> <<>>, events |-> {}]
  ELSE IF Head(invs) \in Range(recv)
  THEN LET r == UtxoUpdate(us, Head(invs), Head(oks))
           rest == ApplyBatchIgnoreMissing(Tail(invs), recv, r.utxo, Tail(oks))
       IN [utxo |-> rest.utxo,
           failed |-> rest.failed \/ ~r.ok,
           calls |-> <<[hash |-> Head(invs), ok |-> r.ok]>> \o rest.calls,
           events |-> rest.events \cup (IF r.ok THEN {} ELSE {"update"})]
  ELSE LET rest == ApplyBatchIgnoreMissing(Tail(invs), recv, us, Tail(oks))
       IN [rest EXCEPT !.events = @ \cup {"missing"}]

\* `for recv_inv in cache.iter()`: look each requested hash up in recv_data and
\* pass the block to utxo_set.update; a missing block or a false update sets
\* failed.  calls and events record what happened.
RECURSIVE ApplyBatch(_, _, _, _)
ApplyBatch(invs, recv, us, oks) ==
  IF invs = <<>>
  THEN [utxo |-> us, failed |-> FALSE, calls |-> <<>>, events |-> {}]
  ELSE IF Head(invs) \in Range(recv)
  THEN LET r == UtxoUpdate(us, Head(invs), Head(oks))
           rest == ApplyBatch(Tail(invs), recv, r.utxo, Tail(oks))
       IN [utxo |-> rest.utxo,
           failed |-> rest.failed \/ ~r.ok,
           calls |-> <<[hash |-> Head(invs), ok |-> r.ok]>> \o rest.calls,
           events |-> rest.events \cup (IF r.ok THEN {} ELSE {"update"})]
  ELSE LET rest == ApplyBatch(Tail(invs), recv, us, Tail(oks))
       IN [rest EXCEPT !.failed = TRUE, !.events = @ \cup {"missing"}]

\* BatchApply that restores the UTXO set when the batch has failed.
BatchApplyRollback ==
  /\ ret = "running"
  /\ state = "SyncUtxoSet"
  /\ pc = "apply"
  /\ \E oks \in [1..Len(cache) -> BOOLEAN] :
       LET r == ApplyBatch(cache, recv_data, utxo_set, oks) IN
         /\ utxo_set' = IF r.failed THEN utxo_set ELSE r.utxo
         /\ failed' = (failed \/ r.failed)
         /\ events' = events \cup r.events
         /\ updateCalls' = r.calls
         /\ pass' = [pass EXCEPT !.calls = @ \o r.calls]
  /\ cache' = <<>>
  /\ pc' = "forward"
  /\ Send(<<>>)
  /\ UNCHANGED <<state, ret, blockchain, inbox, disk, iter, block_count, recv_data,
                 inv_to_add_data, nDelivered, nHanded, lastHanded, loaded, firstReply,
                 pingRun, lastBatch, bodyReplies, writes>>
  /\ UNCHANGED <<idleErrs, pruneErrs, rpcVars>>

\* The batch is complete: apply it in request order and clear the cache.
BatchApply ==
  /\ ret = "running"
  /\ state = "SyncUtxoSet"
  /\ pc = "apply"
  /\ \E oks \in [1..Len(cache) -> BOOLEAN] :
       LET r == ApplyBatch(cache, recv_data, utxo_set, oks) IN
         /\ utxo_set' = r.utxo
         /\ failed' = (failed \/ r.failed)
         /\ events' = events \cup r.events
         /\ updateCalls' = r.calls
         /\ pass' = [pass EXCEPT !.calls = @ \o r.calls]
  /\ cache' = <<>>
  /\ pc' = "forward"
  /\ Send(<<>>)
  /\ UNCHANGED <<state, ret, blockchain, inbox, disk, iter, block_count, recv_data,
                 inv_to_add_data, nDelivered, nHanded, lastHanded, loaded, firstReply,
                 pingRun, lastBatch, bodyReplies, writes>>
  /\ UNCHANGED <<idleErrs, pruneErrs, rpcVars>>

\* UtxoFailed with the test of `failed` left out.
UtxoFailedAlways ==
  /\ ret = "running"
  /\ state = "SyncUtxoSet"
  /\ pc = "forward"
  /\ Len(cache) + Len(iter) < UTXO_SYNC_N_BLOCKS
  /\ cache' = cache \o iter
  /\ iter' = <<>>
  /\ state' = "SyncBlockchain"
  /\ pc' = "send"
  /\ updateCalls' = <<>>
  /\ lastBatch' = NoBatch
  /\ Send(<<>>)
  /\ UNCHANGED <<ret, idleVars, inbox, disk, failed, block_count, recv_data,
                 inv_to_add_data, nDelivered, nHanded, lastHanded, loaded, firstReply,
                 pingRun, events, bodyReplies, writes>>
  /\ pass' = NoPass
  /\ UNCHANGED <<idleErrs, pruneErrs, rpcVars>>

\* UtxoFailed that leaves the forward loop as soon as the pass is marked
\* failed.
UtxoFailedEarly ==
  /\ ret = "running"
  /\ state = "SyncUtxoSet"
  /\ pc = "forward"
  /\ failed
  /\ cache' = cache \o iter
  /\ iter' = <<>>
  /\ state' = "SyncBlockchain"
  /\ pc' = "send"
  /\ updateCalls' = <<>>
  /\ lastBatch' = NoBatch
  /\ Send(<<>>)
  /\ UNCHANGED <<ret, idleVars, inbox, disk, failed, block_count, recv_data,
                 inv_to_add_data, nDelivered, nHanded, lastHanded, loaded, firstReply,
                 pingRun, events, bodyReplies, writes>>
  /\ pass' = NoPass
  /\ UNCHANGED <<idleErrs, pruneErrs, rpcVars>>

\* `if failed`: the forward loop has ended with the pass marked failed.
UtxoFailed ==
  /\ ret = "running"
  /\ state = "SyncUtxoSet"
  /\ pc = "forward"
  /\ Len(cache) + Len(iter) < UTXO_SYNC_N_BLOCKS
  /\ failed
  /\ cache' = cache \o iter
  /\ iter' = <<>>
  /\ state' = "SyncBlockchain"
  /\ pc' = "send"
  /\ updateCalls' = <<>>
  /\ lastBatch' = NoBatch
  /\ Send(<<>>)
  /\ UNCHANGED <<ret, idleVars, inbox, disk, failed, block_count, recv_data,
                 inv_to_add_data, nDelivered, nHanded, lastHanded, loaded, firstReply,
                 pingRun, events, bodyReplies, writes>>
  /\ pass' = NoPass
  /\ UNCHANGED <<idleErrs, pruneErrs, rpcVars>>

\* `else`: the forward loop has ended with no failure: request the bodies
\* missing in the first BLOCKCHAIN_N_FULL_BLOCKS nodes from the tip, drop
\* those beyond; a remove_txdata that fails is logged and leaves the body.
UtxoPrune ==
  /\ ret = "running"
  /\ state = "SyncUtxoSet"
  /\ pc = "forward"
  /\ Len(cache) + Len(iter) < UTXO_SYNC_N_BLOCKS
  /\ ~failed
  /\ cache' = cache \o iter
  /\ iter' = <<>>
  /\ LET chain == RevIter(blockchain, blockchain.tip)
         near == {chain[i] : i \in {j \in DOMAIN chain : j - 1 < BLOCKCHAIN_N_FULL_BLOCKS}}
         hashes_to_drop_data == (Range(chain) \ near) \cap blockchain.txdata
     IN /\ inv_to_add_data' = SelectIn(chain, near \ blockchain.txdata)
        /\ \E removed \in SUBSET hashes_to_drop_data :
             /\ blockchain' = RemoveTxdata(blockchain, removed)
             /\ pruneErrs' = IF removed = hashes_to_drop_data THEN {}
                              ELSE {"remove_txdata"}
  /\ Send(<<Msg("getdata", inv_to_add_data')>>)
  /\ block_count' = 0
  /\ IF Len(inv_to_add_data') = 0
     THEN state' = "SaveToDisk" /\ pc' = "run"
     ELSE state' = state /\ pc' = "body"
  /\ updateCalls' = <<>>
  /\ lastBatch' = NoBatch
  /\ bodyReplies' = <<>>
  /\ UNCHANGED <<ret, utxo_set, inbox, disk, failed, recv_data, nDelivered, nHanded,
                 lastHanded, loaded, firstReply, pingRun, events, writes>>
  /\ pass' = NoPass
  /\ UNCHANGED <<idleErrs, rpcVars>>

\* BodyBlockArm whose loop test is `block_count <= inv_to_add_data.len()`.
BodyBlockArmOneMore(m) ==
  /\ blockchain' = AddTxdata(blockchain, m.arg[1])
  /\ block_count' = block_count + 1
  /\ IF block_count' <= Len(inv_to_add_data)
     THEN state' = state /\ pc' = pc
     ELSE state' = "SaveToDisk" /\ pc' = "run"
  /\ bodyReplies' = Append(bodyReplies, m.arg[1])
  /\ Send(<<>>)
  /\ UNCHANGED <<ret, utxo_set, disk, failed, cache, iter, recv_data, inv_to_add_data,
                 loaded, firstReply, pingRun, batchHist, writes>>

\* The `message::Block(block)` arm of the body pump.
BodyBlockArm(m) ==
  /\ blockchain' = AddTxdata(blockchain, m.arg[1])
  /\ block_count' = block_count + 1
  /\ IF block_count' < Len(inv_to_add_data)
     THEN state' = state /\ pc' = pc
     ELSE state' = "SaveToDisk" /\ pc' = "run"
  /\ bodyReplies' = Append(bodyReplies, m.arg[1])
  /\ Send(<<>>)
  /\ UNCHANGED <<ret, utxo_set, disk, failed, cache, iter, recv_data, inv_to_add_data,
                 loaded, firstReply, pingRun, batchHist, writes>>

\* BodyNotFoundArm that gives the pass up and goes back to SyncBlockchain.
BodyNotFoundArmRetry(m) ==
  /\ block_count' = block_count + 1
  /\ state' = "SyncBlockchain" /\ pc' = "send"
  /\ bodyReplies' = Append(bodyReplies, -1)
  /\ Send(<<>>)
  /\ UNCHANGED <<ret, idleVars, disk, failed, cache, iter, recv_data, inv_to_add_data,
                 loaded, firstReply, pingRun, batchHist, writes>>

\* The `message::NotFound(_)` arm of the body pump.
BodyNotFoundArm(m) ==
  /\ block_count' = block_count + 1
  /\ IF block_count' < Len(inv_to_add_data)
     THEN state' = state /\ pc' = pc
     ELSE state' = "SaveToDisk" /\ pc' = "run"
  /\ bodyReplies' = Append(bodyReplies, -1)
  /\ Send(<<>>)
  /\ UNCHANGED <<ret, idleVars, disk, failed, cache, iter, recv_data, inv_to_add_data,
                 loaded, firstReply, pingRun, batchHist, writes>>

\* The pump that waits for the requested block bodies.
BodyPump ==
  /\ ret = "running"
  /\ state = "SyncUtxoSet"
  /\ pc = "body"
  /\ inbox # <<>>
  /\ LET m == Head(inbox) IN
       /\ WithNextMessage(m, {"block", "notfound", "ping"})
       /\ CASE m.tag = "block" -> BodyBlockArm(m)
            [] m.tag = "notfound" -> BodyNotFoundArm(m)
            [] m.tag = "ping" -> PingArm(m)
            [] OTHER -> TRUE
  /\ pruneErrs' = pruneErrs \cup
       (IF Head(inbox).tag = "notfound" THEN {"notfound"}
        ELSE IF Head(inbox).tag = "block" /\ Head(inbox).arg[1] \notin blockchain.nodes
        THEN {"add_txdata"} ELSE {})
  /\ UNCHANGED <<idleErrs, pass, rpcVars>>

\* SaveToDisk that gives up the UTXO set write when the blockchain write failed.
SaveToDiskStopsOnError ==
  /\ ret = "running"
  /\ state = "SaveToDisk"
  /\ \E okb, oku \in BOOLEAN :
       /\ disk' = [blockchain |-> IF okb THEN File(TRUE, blockchain) ELSE disk.blockchain,
                   utxo_set |-> IF okb /\ oku THEN File(TRUE, utxo_set) ELSE disk.utxo_set]
       /\ writes' = writes \o (IF okb THEN <<"blockchain", "utxo_set">> ELSE <<"blockchain">>)
  /\ state' = "Idle"
  /\ bodyReplies' = <<>>
  /\ Send(<<>>)
  /\ UNCHANGED <<pc, ret, idleVars, inbox, localVars, nDelivered, nHanded, lastHanded,
                 loaded, firstReply, pingRun, batchHist>>
  /\ pruneErrs' = {}
  /\ UNCHANGED <<idleErrs, pass, rpcVars>>

\* SaveToDisk: write the blockchain, then the UTXO set; a failed write is
\* logged and leaves its file as it was.
SaveToDisk ==
  /\ ret = "running"
  /\ state = "SaveToDisk"
  /\ \E okb, oku \in BOOLEAN :
       disk' = [blockchain |-> IF okb THEN File(TRUE, blockchain) ELSE disk.blockchain,
                utxo_set |-> IF oku THEN File(TRUE, utxo_set) ELSE disk.utxo_set]
  /\ writes' = writes \o <<"blockchain", "utxo_set">>
  /\ state' = "Idle"
  /\ bodyReplies' = <<>>
  /\ Send(<<>>)
  /\ UNCHANGED <<pc, ret, idleVars, inbox, localVars, nDelivered, nHanded, lastHanded,
                 loaded, firstReply, pingRun, batchHist>>
  /\ pruneErrs' = {}
  /\ UNCHANGED <<idleErrs, pass, rpcVars>>

\* How a dispatch of idle_message went: add_block returned Err, a send
\* returned Err (consume_err logs it), or neither.
IdleOutcome(m, sendOk) ==
  CASE m.tag = "block" ->
         IF AddBlock(blockchain, m.arg[1]) = blockchain THEN {"add_block_err"} ELSE {"ok"}
    [] m.tag \in {"version", "inv", "ping"} -> IF sendOk THEN {"ok"} ELSE {"send_err"}
    [] OTHER -> {"ok"}

\* idle_message whose ping arm answers every ping with one fixed nonce.
IdleMessageFixedNonce(m) ==
  /\ blockchain' = IF m.tag = "block" THEN AddBlock(blockchain, m.arg[1]) ELSE blockchain
  /\ Send(CASE m.tag = "version" -> <<Msg("verack", <<>>)>>
            [] m.tag = "inv" -> <<Msg("getdata", m.arg)>>
            [] m.tag = "ping" -> <<Msg("pong", <<7>>)>>
            [] OTHER -> <<>>)
  /\ \E sendOk \in BOOLEAN : idleErrs' = idleErrs \cup (IdleOutcome(m, sendOk) \ {"ok"})
  /\ UNCHANGED utxo_set

\* idle_message whose headers arm adds the headers to the blockchain.
IdleMessageAddsHeaders(m) ==
  /\ blockchain' = CASE m.tag = "block" -> AddBlock(blockchain, m.arg[1])
                     [] m.tag = "headers" -> AddHeaders(blockchain, m.arg)
                     [] OTHER -> blockchain
  /\ Send(CASE m.tag = "version" -> <<Msg("verack", <<>>)>>
            [] m.tag = "inv" -> <<Msg("getdata", m.arg)>>
            [] m.tag = "ping" -> <<Msg("pong", m.arg)>>
            [] OTHER -> <<>>)
  /\ \E sendOk \in BOOLEAN : idleErrs' = idleErrs \cup (IdleOutcome(m, sendOk) \ {"ok"})
  /\ UNCHANGED utxo_set

\* idle_message whose block arm also applies the block to the UTXO set.
IdleMessageUpdatesUtxo(m) ==
  /\ blockchain' = IF m.tag = "block" THEN AddBlock(blockchain, m.arg[1]) ELSE blockchain
  /\ Send(CASE m.tag = "version" -> <<Msg("verack", <<>>)>>
            [] m.tag = "inv" -> <<Msg("getdata", m.arg)>>
            [] m.tag = "ping" -> <<Msg("pong", m.arg)>>
            [] OTHER -> <<>>)
  /\ \E sendOk \in BOOLEAN : idleErrs' = idleErrs \cup (IdleOutcome(m, sendOk) \ {"ok"})
  /\ utxo_set' = IF m.tag = "block" THEN UtxoUpdate(utxo_set, m.arg[1], TRUE).utxo
                 ELSE utxo_set

\* idle_message: the reply and the update each message tag causes.
IdleMessage(m) ==
  /\ blockchain' = IF m.tag = "block" THEN AddBlock(blockchain, m.arg[1]) ELSE blockchain
  /\ Send(CASE m.tag = "version" -> <<Msg("verack", <<>>)>>
            [] m.tag = "inv" -> <<Msg("getdata", m.arg)>>
            [] m.tag = "ping" -> <<Msg("pong", m.arg)>>
            [] OTHER -> <<>>)
  /\ \E sendOk \in BOOLEAN : idleErrs' = idleErrs \cup (IdleOutcome(m, sendOk) \ {"ok"})
  /\ UNCHANGED utxo_set

\* Idle that returns the error of a failed send or a failed add_block.
IdleReturnsErrors ==
  /\ state = "Idle"
  /\ inbox # <<>>
  /\ LET m == Head(inbox) IN
       /\ inbox' = Tail(inbox)
       /\ IdleMessage(m)
       /\ pingRun' = IF m.tag = "ping"
                     THEN [pings |-> Append(pingRun.pings, m.arg[1]),
                           sent |-> pingRun.sent \o sentNow',
                           from |-> IF pingRun.pings = <<>> THEN <<blockchain, utxo_set>>
                                    ELSE pingRun.from]
                     ELSE NoRun
  /\ ret = "running"
  /\ ret' = IF idleErrs' # {} THEN "Err" ELSE ret
  /\ UNCHANGED <<state, pc, disk, localVars, nDelivered, nHanded, lastHanded,
                 loaded, firstReply, batchHist, bodyReplies, writes>>
  /\ UNCHANGED <<passVars, rpcVars>>

\* Idle: take one message and dispatch it.
Idle ==
  /\ ret = "running"
  /\ state = "Idle"
  /\ inbox # <<>>
  /\ LET m == Head(inbox) IN
       /\ inbox' = Tail(inbox)
       /\ IdleMessage(m)
       /\ pingRun' = IF m.tag = "ping"
                     THEN [pings |-> Append(pingRun.pings, m.arg[1]),
                           sent |-> pingRun.sent \o sentNow',
                           from |-> IF pingRun.pings = <<>> THEN <<blockchain, utxo_set>>
                                    ELSE pingRun.from]
                     ELSE NoRun
  /\ UNCHANGED <<state, pc, ret, disk, localVars, nDelivered, nHanded, lastHanded,
                 loaded, firstReply, batchHist, bodyReplies, writes>>
  /\ UNCHANGED <<passVars, rpcVars>>

Next ==
  \/ PeerDeliver
  \/ StartInit
  \/ LoadFromDisk
  \/ SendGetHeaders
  \/ HeadersPump
  \/ UtxoSetBegin
  \/ UtxoForwardBatch
  \/ BatchPump
  \/ BatchApply
  \/ UtxoFailed
  \/ UtxoPrune
  \/ BodyPump
  \/ SaveToDisk
  \/ Idle

Spec == Init /\ [][Next]_vars

\* ------------------------------------------------------ the RPC dispatcher
\* Parameters a request carries at most, and coinjoin sessions a server holds
\* at most.
MaxParams == 4
MaxSessions == 2

SessionIds == 1..MaxSessions

JStr(s) == [t |-> "str", v |-> <<s>>]

JNum(s) == [t |-> "num", v |-> <<s>>]

JBool(b) == [t |-> "bool", v |-> <<IF b THEN "true" ELSE "false">>]

\* A JSON object, by its keys.
JObject(keys) == [t |-> "object", v |-> keys]

\* The JSON values a request's parameters are drawn from: the hex of block 2,
\* the hex (in capitals) of a hash no block has, a string that is no hex, and
\* a number.
JsonParams == {JStr("02"), JStr("0A"), JStr("zz"), JNum("1")}

ParamLists == UNION {[1..n -> JsonParams] : n \in 0..MaxParams}

\* Hex text to hash (either case of the digits), and hash to hex text (lower
\* case).
HashOfHex == ("02" :> 2) @@ ("0a" :> 10) @@ ("0A" :> 10)

HexOfHash == (2 :> "02") @@ (10 :> "0a")

\* #[doc], #[usage], #[coinjoin] of one procedure of rpc_calls!.
RpcCall(name, usage, cj) == [name |-> name, usage |-> usage, coinjoin |-> cj]

RPC_CALLS ==
  << RpcCall("help", "", FALSE),
     RpcCall("getblock", "<hash>", FALSE),
     RpcCall("getutxocount", "", FALSE),
     RpcCall("getblockcount", "[start hash]", FALSE),
     RpcCall("raw_decode", "<hex-encoded tx data>", FALSE),
     RpcCall("raw_validate", "<hex-encoded tx data>", FALSE),
     RpcCall("raw_trace", "<hex-encoded tx data>", FALSE),
     RpcCall("script_trace", "<hex-encoded script>", FALSE),
     RpcCall("script_unspendable", "<hex-encoded script>", FALSE),
     RpcCall("coinjoin_start",
             "<target amount (satoshi)> <join duration (seconds)> <merge duration (seconds)>",
             TRUE),
     RpcCall("coinjoin_status", "[session id]", TRUE),
     RpcCall("coinjoin_add_raw_unsigned", "<rawtx> [session id]", TRUE),
     RpcCall("coinjoin_add_raw_signed", "<rawtx> [session id]", TRUE) >>

RegistryNames == {RPC_CALLS[i].name : i \in DOMAIN RPC_CALLS}

\* The method names requests carry: those of the registry and two it lacks.
Methods == RegistryNames \cup {"getinfo", "Help"}

Requests == [method : Methods, params : ParamLists]

\* jsonrpc::error::standard_error.
standard_error(kind, data) ==
  [code |-> IF kind = "InvalidParams" THEN -32602 ELSE -32601,
   message |-> kind, data |-> data]

\* Wrong-code variant of bitcoin_json_error: BlockNotFound answered as
\* SessionNotFound.
bitcoin_json_error_mixed(code, data) ==
  CASE code = "BadRng" -> [code |-> -1, message |-> "Bad RNG", data |-> data]
    [] code = "BlockNotFound" ->
         [code |-> -5, message |-> "Coinjoin session not found", data |-> data]
    [] code = "CoinjoinError" -> [code |-> -3, message |-> "Coinjoin error: e", data |-> data]
    [] code = "InvalidTx" -> [code |-> -4, message |-> "Transaction invalid", data |-> data]
    [] code = "SessionNotFound" ->
         [code |-> -5, message |-> "Coinjoin session not found", data |-> data]
    [] code = "WalletError" -> [code |-> -6, message |-> "Wallet error", data |-> data]

bitcoin_json_error(code, data) ==
  CASE code = "BadRng" -> [code |-> -1, message |-> "Bad RNG", data |-> data]
    [] code = "BlockNotFound" -> [code |-> -2, message |-> "Block not found", data |-> data]
    [] code = "CoinjoinError" -> [code |-> -3, message |-> "Coinjoin error: e", data |-> data]
    [] code = "InvalidTx" -> [code |-> -4, message |-> "Transaction invalid", data |-> data]
    [] code = "SessionNotFound" ->
         [code |-> -5, message |-> "Coinjoin session not found", data |-> data]
    [] code = "WalletError" -> [code |-> -6, message |-> "Wallet error", data |-> data]

\* usage_error: format!("Usage: {} {}", rpc.name, rpc.usage), as its tokens.
usage_error(rpc) ==
  standard_error("InvalidParams", <<[t |-> "str", v |-> <<"Usage:", rpc.name, rpc.usage>>]>>)

\* The error decode_param and decode_hex_param map every failure to.
DecodeError == standard_error("InvalidParams", <<JStr("decoder error")>>)

\* decode_param::<Sha256dHash>, ::<u64> (or i64), ::<SessionId>.
DecodeHash(j) ==
  IF j.t = "str" /\ j.v[1] \in DOMAIN HashOfHex
  THEN [ok |-> TRUE, v |-> HashOfHex[j.v[1]]] ELSE [ok |-> FALSE, v |-> 0]

DecodeInt(j) == [ok |-> j.t = "num", v |-> 1]

DecodeSessionId(j) == [ok |-> j.t = "num", v |-> 1]

\* decode_hex_param: whether it can succeed; deserialize may refuse hex bytes.
DecodeHexParam(j) ==
  IF j.t = "str" /\ j.v[1] \in DOMAIN HashOfHex THEN BOOLEAN ELSE {FALSE}

\* What a procedure leaves behind: its result, the coinjoin server, the
\* wallet, and what it sent on the socket.
Out(res, cj, w, sent) ==
  [res |-> res, coinjoin |-> cj, wallet |-> w, sent |-> sent, called |-> NoCall,
   updated |-> TRUE]

Same(res) == [Out(res, coinjoin, wallet, <<>>) EXCEPT !.updated = FALSE]

\* Server::update_all: session timers advance; the current session may expire.
UpdateAll(sv) == {sv, [sv EXCEPT !.current = 0]}

\* help that lists every procedure of the registry.
help_all(rpc, params) ==
  {Same(Ok(JObject([i \in DOMAIN RPC_CALLS |-> RPC_CALLS[i].name])))}

help(rpc, params) ==
  LET listed == SelectSeq(RPC_CALLS, LAMBDA call : ~call.coinjoin \/ config.coinjoin_on)
  IN {Same(Ok(JObject([i \in DOMAIN listed |-> listed[i].name])))}

getblock(rpc, params) ==
  IF Len(params) = 1
  THEN LET hash == DecodeHash(params[1]) IN
         IF ~hash.ok THEN {Same(Err(DecodeError))}
         ELSE IF hash.v \in blockchain.nodes
              THEN {Same(Ok(JObject(IF hash.v \in blockchain.txdata
                                    THEN <<"header", "has_txdata", "transactions">>
                                    ELSE <<"header", "has_txdata">>)))}
              ELSE {Same(Err(bitcoin_json_error("BlockNotFound",
                                                <<JStr(HexOfHash[hash.v])>>)))}
  ELSE {Same(Err(usage_error(rpc)))}

getutxocount(rpc, params) ==
  IF Len(params) = 0
  THEN {Same(Ok(JNum(ToString(Cardinality(utxo_set.applied)))))}
  ELSE {Same(Err(usage_error(rpc)))}

getblockcount(rpc, params) ==
  CASE Len(params) = 0 ->
         {Same(Ok(JNum(ToString(Len(Iter(blockchain, Genesis)) - 1))))}
    [] Len(params) = 1 ->
         LET hash == DecodeHash(params[1]) IN
           IF ~hash.ok THEN {Same(Err(DecodeError))}
           ELSE LET n == Len(Iter(blockchain, hash.v)) IN
                  IF n = 0
                  THEN {Same(Err(bitcoin_json_error("BlockNotFound",
                                                    <<JStr(HexOfHash[hash.v])>>)))}
                  ELSE {Same(Ok(JNum(ToString(n - 1))))}
    [] OTHER -> {Same(Err(usage_error(rpc)))}

raw_decode(rpc, params) ==
  IF Len(params) = 1
  THEN {IF ok THEN Same(Ok(JObject(<<"tx">>))) ELSE Same(Err(DecodeError)) :
          ok \in DecodeHexParam(params[1])}
  ELSE {Same(Err(usage_error(rpc)))}

raw_validate(rpc, params) ==
  IF Len(params) = 1
  THEN UNION {IF ok
              THEN {Same(Ok(JBool(TRUE))),
                    Same(Err(bitcoin_json_error("InvalidTx", <<JStr("e")>>)))}
              ELSE {Same(Err(DecodeError))} : ok \in DecodeHexParam(params[1])}
  ELSE {Same(Err(usage_error(rpc)))}

raw_trace(rpc, params) ==
  IF Len(params) = 1
  THEN {IF ok THEN Same(Ok(JObject(<<"trace">>))) ELSE Same(Err(DecodeError)) :
          ok \in DecodeHexParam(params[1])}
  ELSE {Same(Err(usage_error(rpc)))}

script_trace(rpc, params) ==
  IF Len(params) = 1
  THEN {IF ok THEN Same(Ok(JObject(<<"trace">>))) ELSE Same(Err(DecodeError)) :
          ok \in DecodeHexParam(params[1])}
  ELSE {Same(Err(usage_error(rpc)))}

script_unspendable(rpc, params) ==
  IF Len(params) = 1
  THEN UNION {IF ok
              THEN {Same(Ok(JStr("unspendable"))), Same(Ok(JStr("spendable")))}
              ELSE {Same(Err(DecodeError))} : ok \in DecodeHexParam(params[1])}
  ELSE {Same(Err(usage_error(rpc)))}

\* The session a coinjoin procedure works on: the current one with `cur`
\* parameters, the one named by params[cur + 1] with one more; <<>> if there
\* is one, else the error returned.
PickSession(sv, rpc, params, cur) ==
  CASE Len(params) = cur ->
         IF sv.current # 0 THEN <<>>
         ELSE <<bitcoin_json_error("SessionNotFound", <<>>)>>
    [] Len(params) = cur + 1 ->
         LET id == DecodeSessionId(params[cur + 1]) IN
           IF ~id.ok THEN <<DecodeError>>
           ELSE IF id.v \in sv.sessions THEN <<>>
           ELSE <<bitcoin_json_error("SessionNotFound", <<>>)>>
    [] OTHER -> <<usage_error(rpc)>>

coinjoin_start(rpc, params) ==
  IF Len(params) = 3
  THEN IF \E i \in 1..3 : ~DecodeInt(params[i]).ok
       THEN {Same(Err(DecodeError))}
       ELSE LET sv0 == IF coinjoin.started THEN coinjoin
                       ELSE [started |-> TRUE, sessions |-> {}, current |-> 0,
                             complete |-> {}]
                w1 == wallet \cup {"coinjoin"}
                walletError == Err(bitcoin_json_error("WalletError", <<JStr("e")>>))
            IN UNION {
                 (IF "coinjoin" \in wallet THEN {} ELSE {Out(walletError, sv, wallet, <<>>)})
                 \cup {Out(walletError, sv, w1, <<>>),
                       Out(Err(bitcoin_json_error("BadRng", <<JStr("e")>>)), sv, w1, <<>>)}
                 \cup {Out(Ok(JNum(ToString(id))),
                           [sv EXCEPT !.sessions = @ \cup {id}, !.current = id], w1, <<>>) :
                         id \in SessionIds \ sv.sessions}
                 : sv \in UpdateAll(sv0)}
  ELSE {Same(Err(usage_error(rpc)))}

coinjoin_status(rpc, params) ==
  IF ~coinjoin.started
  THEN {Same(Err(bitcoin_json_error("SessionNotFound", <<>>)))}
  ELSE {LET e == PickSession(sv, rpc, params, 0) IN
          Out(IF e = <<>> THEN Ok(JObject(<<"session">>)) ELSE Err(e[1]), sv, wallet, <<>>)
          : sv \in UpdateAll(coinjoin)}

coinjoin_add_raw_unsigned(rpc, params) ==
  IF ~coinjoin.started
  THEN {Same(Err(bitcoin_json_error("SessionNotFound", <<>>)))}
  ELSE UNION {
         LET e == PickSession(sv, rpc, params, 1) IN
           IF e # <<>> THEN {Out(Err(e[1]), sv, wallet, <<>>)}
           ELSE UNION {IF ok
                       THEN {Out(Ok(JBool(TRUE)), sv, wallet, <<>>),
                             Out(Err(bitcoin_json_error("CoinjoinError", <<>>)),
                                 sv, wallet, <<>>)}
                       ELSE {Out(Err(DecodeError), sv, wallet, <<>>)}
                       : ok \in DecodeHexParam(params[1])}
         : sv \in UpdateAll(coinjoin)}

\* The session the procedure works on: the current one, or the one named by
\* the parameter after the first cur.
PickedId(sv, params, cur) ==
  IF Len(params) = cur THEN sv.current ELSE DecodeSessionId(params[cur + 1]).v

\* add_signed may complete the session it accepts a transaction for; a
\* complete session stays complete.  The transaction of a session found
\* Complete after add_signed is sent, whatever add_signed returned.
coinjoin_add_raw_signed(rpc, params) ==
  IF ~coinjoin.started
  THEN {Same(Err(bitcoin_json_error("SessionNotFound", <<>>)))}
  ELSE UNION {
         LET e == PickSession(sv, rpc, params, 1) IN
           IF e # <<>> THEN {Out(Err(e[1]), sv, wallet, <<>>)}
           ELSE UNION {IF ok
                       THEN LET id == PickedId(sv, params, 1) IN
                              {Out(o.res,
                                   [sv EXCEPT !.complete =
                                      IF o.complete THEN @ \cup {id} ELSE @],
                                   wallet,
                                   IF o.complete THEN <<Msg("tx", <<>>)>> ELSE <<>>) :
                                 o \in {o \in [res : {Ok(JBool(TRUE)),
                                                      Err(bitcoin_json_error("CoinjoinError", <<>>))},
                                               complete : BOOLEAN] :
                                          /\ id \in sv.complete => o.complete
                                          /\ (id \notin sv.complete /\ ~o.res.ok) => ~o.complete}}
                       ELSE {Out(Err(DecodeError), sv, wallet, <<>>)}
                       : ok \in DecodeHexParam(params[1])}
         : sv \in UpdateAll(coinjoin)}

\* (rpc.call)(rpc, idle_state, params).
Call(rpc, params) ==
  CASE rpc.name = "help" -> help(rpc, params)
    [] rpc.name = "getblock" -> getblock(rpc, params)
    [] rpc.name = "getutxocount" -> getutxocount(rpc, params)
    [] rpc.name = "getblockcount" -> getblockcount(rpc, params)
    [] rpc.name = "raw_decode" -> raw_decode(rpc, params)
    [] rpc.name = "raw_validate" -> raw_validate(rpc, params)
    [] rpc.name = "raw_trace" -> raw_trace(rpc, params)
    [] rpc.name = "script_trace" -> script_trace(rpc, params)
    [] rpc.name = "script_unspendable" -> script_unspendable(rpc, params)
    [] rpc.name = "coinjoin_start" -> coinjoin_start(rpc, params)
    [] rpc.name = "coinjoin_status" -> coinjoin_status(rpc, params)
    [] rpc.name = "coinjoin_add_raw_unsigned" -> coinjoin_add_raw_unsigned(rpc, params)
    [] rpc.name = "coinjoin_add_raw_signed" -> coinjoin_add_raw_signed(rpc, params)

\* handle_rpc that dispatches a coinjoin procedure whatever config.coinjoin_on.
handle_rpc_ungated(request) ==
  LET found == {i \in DOMAIN RPC_CALLS : RPC_CALLS[i].name = request.method} IN
    IF found # {}
    THEN LET rpc == RPC_CALLS[CHOOSE i \in found : TRUE] IN
           {[o EXCEPT !.called = [name |-> rpc.name, params |-> request.params]] :
              o \in Call(rpc, request.params)}
    ELSE {Same(Err(standard_error("MethodNotFound", <<JStr(request.method)>>)))}

\* handle_rpc: the outcomes of one request.
handle_rpc(request) ==
  LET found == {i \in DOMAIN RPC_CALLS : RPC_CALLS[i].name = request.method} IN
    IF found # {} /\ (\A i \in found : ~RPC_CALLS[i].coinjoin \/ config.coinjoin_on)
    THEN LET rpc == RPC_CALLS[CHOOSE i \in found : TRUE] IN
           {[o EXCEPT !.called = [name |-> rpc.name, params |-> request.params]] :
              o \in Call(rpc, request.params)}
    ELSE {Same(Err(standard_error("MethodNotFound", <<JStr(request.method)>>)))}

\* The RPC worker hands the pending request to handle_rpc.
RpcRequest ==
  /\ ret = "running"
  /\ state = "Idle"
  /\ rpcPc = "pending"
  /\ \E o \in handle_rpc(rpcReq) :
       /\ rpcResult' = o.res
       /\ rpcCalled' = o.called
       /\ rpcUpdated' = o.updated
       /\ coinjoin' = o.coinjoin
       /\ wallet' = o.wallet
       /\ Send(o.sent)
  /\ rpcPc' = "done"
  /\ UNCHANGED <<state, pc, ret, idleVars, inbox, disk, localVars, nDelivered, nHanded,
                 lastHanded, histVars, idleErrs, passVars, config, readers, rpcReq>>

\* The coinjoin servers a request may find: none yet, one with its session
\* current, one whose current session is complete, one whose session has
\* expired.
ServerStates ==
  {NoServer,
   [started |-> TRUE, sessions |-> {1}, current |-> 1, complete |-> {}],
   [started |-> TRUE, sessions |-> {1}, current |-> 1, complete |-> {1}],
   [started |-> TRUE, sessions |-> {1}, current |-> 0, complete |-> {}]}

\* A request arrives at a node that loaded both checkpoints, took an empty
\* `headers` reply, saved and went Idle.
RpcInit ==
  /\ state = "Idle"
  /\ pc = "run"
  /\ ret = "running"
  /\ blockchain = CkptChain
  /\ utxo_set = CkptUtxoSet
  /\ inbox = <<>>
  /\ disk = [blockchain |-> File(TRUE, CkptChain), utxo_set |-> File(TRUE, CkptUtxoSet)]
  /\ failed = FALSE
  /\ cache = <<>>
  /\ iter = <<>>
  /\ block_count = 0
  /\ recv_data = <<>>
  /\ inv_to_add_data = <<>>
  /\ nDelivered = 1
  /\ sentNow = <<>>
  /\ nHanded = 1
  /\ lastHanded = 1
  /\ loaded = <<TRUE, TRUE>>
  /\ firstReply = "empty"
  /\ pingRun = NoRun
  /\ events = {}
  /\ updateCalls = <<>>
  /\ lastBatch = NoBatch
  /\ bodyReplies = <<>>
  /\ writes = <<"blockchain", "utxo_set">>
  /\ idleErrs = {}
  /\ pruneErrs = {}
  /\ pass = NoPass
  /\ config \in [coinjoin_on : BOOLEAN]
  /\ coinjoin \in ServerStates
  /\ wallet \in {{}, {"coinjoin"}}
  /\ readers = 0
  /\ rpcPc = "pending"
  /\ rpcReq \in Requests
  /\ rpcCalled = NoCall
  /\ rpcUpdated = FALSE
  /\ rpcResult = NoResult

RpcNext == RpcRequest

RpcSpec == RpcInit /\ [][RpcNext]_vars

\* ------------------------------------------------------------------ claims
BestChainHashes == Range(PathToGenesis(blockchain.tip))

\* A step of the sync worker (every step but the peer's delivery).
WorkerStep == nDelivered' = nDelivered /\ vars' # vars

\* A worker step that takes the message at the head of the inbox.
TakeStep == WorkerStep /\ inbox # <<>> /\ inbox' # inbox

InPump == (state = "SyncBlockchain" /\ pc = "wait")
          \/ (state = "SyncUtxoSet" /\ pc \in {"batch", "body"})

PumpPatterns == IF state = "SyncBlockchain" THEN {"headers", "ping"}
                ELSE {"block", "notfound", "ping"}

PhaseEdges ==
  {<<"Init", "LoadFromDisk">>, <<"LoadFromDisk", "SyncBlockchain">>,
   <<"SyncBlockchain", "SyncUtxoSet">>, <<"SyncUtxoSet", "SaveToDisk">>,
   <<"SyncUtxoSet", "SyncBlockchain">>, <<"SaveToDisk", "Idle">>}

\* C1: the phase only ever changes along the edges Init->LoadFromDisk,
\* LoadFromDisk->SyncBlockchain, SyncBlockchain->SyncUtxoSet,
\* SyncUtxoSet->SaveToDisk, SyncUtxoSet->SyncBlockchain (only with the forward
\* pass marked failed) and SaveToDisk->Idle; Idle stays Idle, and neither Init
\* nor LoadFromDisk is entered again.
C1_PhaseEdges ==
  [][/\ state' # state => <<state, state'>> \in PhaseEdges
     /\ (state = "SyncUtxoSet" /\ state' = "SyncBlockchain") => failed
     /\ state' \in {"Init", "LoadFromDisk"} =>
          state' = state \/ <<state, state'>> = <<"Init", "LoadFromDisk">>]_vars

\* The retry edge has been taken: SyncBlockchain runs again after a failed pass.
C1_Witness == state = "SyncBlockchain" /\ pc = "wait" /\ failed
\* C2: every ping(n) taken from the inbox, in the header wait, the batch wait,
\* the body wait or Idle, is answered by pong(n) in the step that takes it,
\* hence before the next message is taken; a duplicate ping gets a duplicate
\* pong.
C2_PingPong ==
  [][(TakeStep /\ Head(inbox).tag = "ping")
       => sentNow' = <<Msg("pong", Head(inbox).arg)>>]_vars

\* A ping has just been answered in the middle of a batch wait.
C2_Witness ==
  state = "SyncUtxoSet" /\ pc = "batch" /\ block_count = 1
  /\ sentNow = <<Msg("pong", <<9>>)>>

\* C3: a pump takes the head of the inbox; a message whose tag matches none of
\* its patterns is dropped with no send and no change of state, and the
\* messages handed to arms carry increasing delivery numbers (the survivors
\* keep the order of delivery).
C3_PumpDiscardsInOrder ==
  [][(InPump /\ WorkerStep /\ inbox # <<>>) =>
       LET m == Head(inbox) IN
         /\ inbox' = Tail(inbox)
         /\ IF m.tag \in PumpPatterns
            THEN lastHanded' = m.seq /\ m.seq > lastHanded /\ nHanded' = nHanded + 1
            ELSE /\ sentNow' = <<>>
                 /\ UNCHANGED <<state, pc, ret, idleVars, disk, localVars, nHanded,
                                lastHanded>>]_vars

\* The pumps have handed over two messages and dropped one delivered before
\* the second of them.
C3_Witness == state = "SyncUtxoSet" /\ nHanded >= 2 /\ lastHanded > nHanded

\* C4: the phase after SyncUtxoSet is SyncBlockchain exactly when the forward
\* pass saw a notfound, a requested block that was not received or an update
\* that returned false; the retry keeps the idle state as it is.
C4_FailedPassRetries ==
  [][(state = "SyncUtxoSet" /\ state' # "SyncUtxoSet") =>
       /\ (state' = "SyncBlockchain") <=> (events # {})
       /\ state' = "SyncBlockchain" => UNCHANGED <<blockchain, utxo_set, inbox>>]_vars

\* The retry after a pass in which a block was missing and an update failed.
C4_Witness == state = "SyncBlockchain" /\ events = {"missing", "update"}
\* A batch has just been applied: lastBatch, recv_data and updateCalls are its
\* request, its received blocks and its update calls.
JustApplied == state = "SyncUtxoSet" /\ pc = "forward" /\ lastBatch # NoBatch

\* The peer answered the batch with one notfound and the blocks for all the
\* other requested hashes.
PartialNotFound ==
  /\ lastBatch.notfound = 1
  /\ Range(recv_data) \subseteq Range(lastBatch.request)
  /\ Cardinality(Range(recv_data)) = Len(lastBatch.request) - 1

\* The position in the request of the block that was not received.
MissingIndex ==
  CHOOSE i \in DOMAIN lastBatch.request : lastBatch.request[i] \notin Range(recv_data)

C6_UpdateInRequestOrder ==
  JustApplied =>
    [i \in DOMAIN updateCalls |-> updateCalls[i].hash]
      = SelectIn(lastBatch.request, Range(recv_data))

\* A batch received in the reverse of the request order was applied in
\* request order.
C6_Witness ==
  /\ JustApplied
  /\ Len(recv_data) = Len(lastBatch.request)
  /\ recv_data = Reverse(lastBatch.request)
  /\ Len(updateCalls) = Len(lastBatch.request)
  /\ ~failed

\* A SyncUtxoSet phase has finished: by its failure edge, or by its pruning.
UtxoSyncFinished ==
  \/ state \in {"SaveToDisk", "Idle"}
  \/ state = "SyncBlockchain" /\ failed

\* C7: in every state after a SyncUtxoSet phase has finished, last_hash of the
\* UTXO set is the hash of a block of the best chain (the tip or one of its
\* ancestors; the genesis hash stands for the zero-hash of an unsynced set).
C7_LastHashOnBestChain ==
  UtxoSyncFinished => utxo_set.last_hash \in BestChainHashes

\* Every block the pruning asked for has arrived as a `block` message.
BodyFetchSucceeded == Range(inv_to_add_data) \subseteq Range(bodyReplies)

\* C8: when SaveToDisk is entered, a block of the best chain at depth d from
\* the tip has no txdata if d >= BLOCKCHAIN_N_FULL_BLOCKS, and has txdata if
\* d < BLOCKCHAIN_N_FULL_BLOCKS and the body fetch succeeded.
C8_TxdataWindow ==
  state = "SaveToDisk" =>
    LET chain == RevIter(blockchain, blockchain.tip) IN
      \A i \in DOMAIN chain :
        /\ i - 1 >= BLOCKCHAIN_N_FULL_BLOCKS => chain[i] \notin blockchain.txdata
        /\ (i - 1 < BLOCKCHAIN_N_FULL_BLOCKS /\ BodyFetchSucceeded)
             => chain[i] \in blockchain.txdata

\* No checkpoint was loaded and the first `headers` reply was empty.
EmptyFirstSync == loaded = <<FALSE, FALSE>> /\ firstReply = "empty"

\* C9: from a genesis-only blockchain and UTXO set, after an empty first
\* `headers` reply SyncBlockchain is over, no step before Idle sends a
\* `getdata`, and Idle is entered with both checkpoint files written once.
C9_EmptyFirstSync ==
  EmptyFirstSync =>
    /\ state # "SyncBlockchain"
    /\ state # "Idle" => \A i \in DOMAIN sentNow : sentNow[i].tag # "getdata"
    /\ state = "Idle" => writes = <<"blockchain", "utxo_set">>

\* C10: in Idle, a run of consecutive pings ping(n_1), ..., ping(n_k) has sent
\* exactly pong(n_1), ..., pong(n_k), in that order, and has left blockchain
\* and utxo_set as they were before the run.
C10_IdlePings ==
  state = "Idle" =>
    /\ pingRun.sent = [i \in DOMAIN pingRun.pings |-> Msg("pong", <<pingRun.pings[i]>>)]
    /\ pingRun.pings # <<>> => <<blockchain, utxo_set>> = pingRun.from

\* Idle has taken three pings in a row, with two different nonces.
C10_Witness == state = "Idle" /\ pingRun.pings = <<7, 9, 7>>

\* C11: once Idle is reached the phase stays Idle and listen() keeps running,
\* whatever message is dispatched and whether or not its send or its add_block
\* fails.
C11_IdleStays ==
  [][state = "Idle" => (state' = "Idle" /\ ret' = "running")]_vars

\* Idle has met both a failed send and a failed add_block.
C11_Witness == state = "Idle" /\ idleErrs = {"send_err", "add_block_err"}

\* C12: when opening the socket fails, listen() has returned the error with
\* the phase still Init: nothing was loaded, written, sent or taken from the
\* channel.
C12_InitError ==
  ret = "Err" =>
    /\ state = "Init"
    /\ blockchain = NoChain /\ utxo_set = NoUtxoSet /\ loaded = <<FALSE, FALSE>>
    /\ writes = <<>>
    /\ sentNow = <<>> /\ nHanded = 0 /\ nDelivered = 0

C12_Witness == ret = "Err" /\ disk.blockchain.ok /\ disk.utxo_set.ok

\* C13: the step that leaves LoadFromDisk enters SyncBlockchain with listen()
\* running; each of blockchain and utxo_set is its checkpoint's value when that
\* checkpoint loads and the genesis value when it does not, independently of
\* the other.
C13_LoadFallsBack ==
  [][(state = "LoadFromDisk" /\ state' # state) =>
       /\ state' = "SyncBlockchain"
       /\ ret' = "running"
       /\ blockchain' = IF disk.blockchain.ok THEN disk.blockchain.val
                        ELSE [nodes |-> {Genesis}, tip |-> Genesis, txdata |-> {Genesis}]
       /\ utxo_set' = IF disk.utxo_set.ok THEN disk.utxo_set.val
                      ELSE [last_hash |-> Genesis, applied |-> {}]]_vars

\* The blockchain checkpoint loaded and the UTXO set fell back to genesis.
C13_Witness ==
  /\ state = "SyncBlockchain" /\ pc = "send" /\ nHanded = 0
  /\ loaded = <<TRUE, FALSE>>
  /\ blockchain = CkptChain /\ utxo_set = UtxoSetNew

\* C14: the step that leaves SaveToDisk attempts the blockchain write and then
\* the UTXO set write, each file ending up written or as it was, and enters
\* Idle with blockchain and utxo_set unchanged and listen() running.
C14_SaveThenIdle ==
  [][(state = "SaveToDisk" /\ state' # state) =>
       /\ state' = "Idle"
       /\ ret' = "running"
       /\ blockchain' = blockchain /\ utxo_set' = utxo_set
       /\ writes' = writes \o <<"blockchain", "utxo_set">>
       /\ disk'.blockchain \in {disk.blockchain, File(TRUE, blockchain)}
       /\ disk'.utxo_set \in {disk.utxo_set, File(TRUE, utxo_set)}]_vars

\* The blockchain write failed and the UTXO set write that followed succeeded.
C14_Witness ==
  /\ state = "Idle"
  /\ loaded = <<FALSE, FALSE>>
  /\ ~disk.blockchain.ok
  /\ disk.utxo_set = File(TRUE, utxo_set)

\* The step sends a getheaders.
SendsGetHeaders == \E i \in DOMAIN sentNow' : sentNow'[i].tag = "getheaders"

MaxReaders == 2

\* An RPC procedure takes read access: idle_state.blockchain.read() or
\* idle_state.utxo_set.read().  RPC workers share the idle state with the
\* Idle phase only.
RpcReadBegin ==
  /\ ret = "running"
  /\ state = "Idle"
  /\ readers < MaxReaders
  /\ readers' = readers + 1
  /\ UNCHANGED <<state, pc, ret, idleVars, inbox, disk, localVars, nDelivered, sentNow,
                 nHanded, lastHanded, histVars, idleErrs, passVars, config, coinjoin, wallet,
                 rpcPc, rpcReq, rpcCalled, rpcUpdated, rpcResult>>

\* The procedure returns and its read guard is dropped.
RpcReadEnd ==
  /\ readers > 0
  /\ readers' = readers - 1
  /\ UNCHANGED <<state, pc, ret, idleVars, inbox, disk, localVars, nDelivered, sentNow,
                 nHanded, lastHanded, histVars, idleErrs, passVars, config, coinjoin, wallet,
                 rpcPc, rpcReq, rpcCalled, rpcUpdated, rpcResult>>

\* The sync worker together with RPC procedures reading the idle state.
SharedNext == Next \/ RpcReadBegin \/ RpcReadEnd

SharedSpec == Init /\ [][SharedNext]_vars

\* ------------------------------------------------------------------ claims
\* The step in which handle_rpc answers the pending request.
RpcAnswered == rpcPc = "pending" /\ rpcPc' = "done"

\* The request names no entry of the registry, or one that is coinjoin-gated
\* while config.coinjoin_on is false.
NotDispatchable ==
  \/ rpcReq.method \notin RegistryNames
  \/ /\ ~config.coinjoin_on
     /\ \E i \in DOMAIN RPC_CALLS :
          RPC_CALLS[i].name = rpcReq.method /\ RPC_CALLS[i].coinjoin

\* C15: handle_rpc answers with the method-not-found error, invoking no
\* procedure and leaving blockchain, utxo_set, the coinjoin server, the wallet
\* and the socket alone, exactly when the method is not in the registry or is
\* coinjoin-gated with coinjoin_on false; otherwise it invokes the entry of
\* that name with the request's parameters.
C15_Dispatch ==
  [][RpcAnswered =>
       IF NotDispatchable
       THEN /\ ~rpcResult'.ok /\ rpcResult'.err.code = -32601
            /\ rpcCalled' = NoCall
            /\ UNCHANGED <<blockchain, utxo_set, coinjoin, wallet, config>>
            /\ sentNow' = <<>>
       ELSE /\ rpcCalled' = [name |-> rpcReq.method, params |-> rpcReq.params]
            /\ rpcResult'.err.code # -32601]_vars

\* coinjoin_start was refused with coinjoin_on false, a server being there.
C15_Witness ==
  /\ rpcPc = "done"
  /\ rpcReq.method = "coinjoin_start" /\ Len(rpcReq.params) = 3
  /\ ~config.coinjoin_on /\ coinjoin.started
  /\ rpcResult.err.code = -32601

\* The parameter counts each procedure has an arm for (help has no match on
\* the count: it takes any).
AcceptedLens ==
  [name \in RegistryNames |->
     CASE name = "help" -> 0..(MaxParams + 1)
       [] name \in {"getutxocount"} -> {0}
       [] name \in {"getblockcount", "coinjoin_status"} -> {0, 1}
       [] name \in {"coinjoin_add_raw_unsigned", "coinjoin_add_raw_signed"} -> {1, 2}
       [] name = "coinjoin_start" -> {3}
       [] OTHER -> {1}]

\* C16: a procedure invoked with a number of parameters it does not accept
\* returns the InvalidParams error whose data is a usage text holding the
\* method's name.
C16_ArityUsage ==
  (rpcPc = "done" /\ rpcCalled # NoCall
     /\ Len(rpcCalled.params) \notin AcceptedLens[rpcCalled.name]) =>
    /\ ~rpcResult.ok
    /\ rpcResult.err.code = -32602
    /\ Len(rpcResult.err.data) = 1
    /\ rpcResult.err.data[1].v[1] = "Usage:"
    /\ \E i \in DOMAIN rpcResult.err.data[1].v : rpcResult.err.data[1].v[i] = rpcCalled.name

\* The names help() returned.
HelpNames == {rpcResult.val.v[i] : i \in DOMAIN rpcResult.val.v}

HelpAnswered == rpcPc = "done" /\ rpcCalled.name = "help"

\* C17 as stated: the names help() returns are a strict subset of the
\* registry's, and are all of the registry's exactly when coinjoin_on is true.
C17_HelpStrictSubset ==
  HelpAnswered =>
    /\ HelpNames \subseteq RegistryNames /\ HelpNames # RegistryNames
    /\ (HelpNames = RegistryNames) <=> config.coinjoin_on

\* C17 as amended: the names help() returns are a subset of the registry's:
\* all of them exactly when coinjoin_on is true, and otherwise the strict
\* subset of those that are not coinjoin-gated.
C17_HelpSubset ==
  HelpAnswered =>
    /\ rpcResult.ok
    /\ HelpNames \subseteq RegistryNames
    /\ (HelpNames = RegistryNames) <=> config.coinjoin_on
    /\ ~config.coinjoin_on =>
         HelpNames = RegistryNames \ {"coinjoin_start", "coinjoin_status",
                                      "coinjoin_add_raw_unsigned",
                                      "coinjoin_add_raw_signed"}

\* help() has answered with coinjoin_on true, listing the whole registry.
C17_Witness == HelpAnswered /\ config.coinjoin_on /\ Cardinality(HelpNames) = 13

\* C18: getblock with one parameter that decodes to a hash no block of the
\* blockchain has returns the error -2, "Block not found", whose data is that
\* hash (as its lower-case hex), and leaves the idle state and the socket alone.
C18_BlockNotFound ==
  [][(RpcAnswered /\ rpcCalled'.name = "getblock" /\ Len(rpcReq.params) = 1
        /\ rpcReq.params[1].t = "str"
        /\ rpcReq.params[1].v[1] \in {"0a", "0A"}
        /\ 10 \notin blockchain.nodes) =>
       /\ rpcResult' = [ok |-> FALSE, val |-> JNull,
                        err |-> [code |-> -2, message |-> "Block not found",
                                 data |-> <<[t |-> "str", v |-> <<"0a">>]>>]]
       /\ UNCHANGED <<blockchain, utxo_set, coinjoin, wallet, config>>
       /\ sentNow' = <<>>]_vars

C18_Witness ==
  /\ rpcPc = "done"
  /\ rpcCalled = [name |-> "getblock", params |-> <<JStr("0A")>>]
  /\ rpcResult.err.code = -2
  /\ coinjoin.started

\* C19: no RPC procedure holds read access to the idle state while a phase
\* other than Idle is current, and no step changes blockchain or utxo_set
\* while an RPC procedure holds read access.
C19_NoReadDuringWrite ==
  /\ [](state # "Idle" => readers = 0)
  /\ [][(blockchain' # blockchain \/ utxo_set' # utxo_set) => readers = 0]_vars

\* The forward loop has ended (fewer than UTXO_SYNC_N_BLOCKS nodes are left for
\* a batch) with the pass not marked failed.
ForwardPassSucceeded ==
  /\ state = "SyncUtxoSet" /\ pc = "forward"
  /\ Len(cache) + Len(iter) < UTXO_SYNC_N_BLOCKS
  /\ ~failed

\* C21: after a forward pass with no failure, SyncUtxoSet ends in SaveToDisk:
\* the step that ends the pass sends one getdata, for the bodies to fetch; the
\* body wait sends no further getdata, counts one reply for each block or
\* notfound it takes and for nothing else, and ends, in SaveToDisk, exactly
\* when as many replies are counted as bodies were requested; no notfound, no
\* add_txdata error and no remove_txdata error leads to SyncBlockchain or
\* marks the pass failed.
C21_PruneEndsInSave ==
  [][WorkerStep =>
       /\ ForwardPassSucceeded =>
            /\ sentNow' = <<Msg("getdata", inv_to_add_data')>>
            /\ bodyReplies' = <<>>
            /\ ~failed'
            /\ IF inv_to_add_data' = <<>> THEN state' = "SaveToDisk"
               ELSE state' = "SyncUtxoSet" /\ pc' = "body"
       /\ (state = "SyncUtxoSet" /\ pc = "body") =>
            /\ inbox # <<>> /\ inbox' = Tail(inbox)
            /\ \A i \in DOMAIN sentNow' : sentNow'[i].tag # "getdata"
            /\ ~failed'
            /\ inv_to_add_data' = inv_to_add_data
            /\ Len(bodyReplies') = Len(bodyReplies)
                 + (IF Head(inbox).tag \in {"block", "notfound"} THEN 1 ELSE 0)
            /\ Len(bodyReplies') <= Len(inv_to_add_data)
            /\ IF Len(bodyReplies') = Len(inv_to_add_data) THEN state' = "SaveToDisk"
               ELSE state' = "SyncUtxoSet" /\ pc' = "body"]_vars

\* SaveToDisk was entered after a pruning in which a remove_txdata failed and
\* the body requested was answered by a notfound.
C21_Witness ==
  /\ state = "SaveToDisk"
  /\ pruneErrs = {"remove_txdata", "notfound"}
  /\ bodyReplies = <<-1>>

\* The procedures of the registry that are coinjoin-gated.
CoinjoinProcedures == {RPC_CALLS[i].name : i \in {j \in DOMAIN RPC_CALLS : RPC_CALLS[j].coinjoin}}

\* A coinjoin procedure was invoked and has returned.
CoinjoinReturned == rpcPc = "done" /\ rpcCalled.name \in CoinjoinProcedures

\* coinjoin_add_raw_signed got as far as add_signed.
AddSignedReached ==
  /\ rpcCalled.name = "coinjoin_add_raw_signed"
  /\ rpcResult \in {Ok(JBool(TRUE)), Err(bitcoin_json_error("CoinjoinError", <<>>))}

\* C22: when a coinjoin procedure (coinjoin_start, coinjoin_status,
\* coinjoin_add_raw_unsigned, coinjoin_add_raw_signed) has returned, the session
\* manager is instantiated and update_all() was called on it during the call;
\* and when coinjoin_add_raw_signed leaves its session complete, it has sent a
\* tx message on the socket.
C22_CoinjoinUpdated ==
  CoinjoinReturned =>
    /\ coinjoin.started
    /\ rpcUpdated
    /\ (AddSignedReached /\ PickedId(coinjoin, rpcCalled.params, 1) \in coinjoin.complete)
         => sentNow = <<Msg("tx", <<>>)>>

\* The tags idle_message answers with nothing.
SilentTags == {"verack", "addr", "block", "headers", "getdata", "notfound", "getblocks",
               "getheaders", "pong"}

\* C23: each message Idle takes causes at most one send, fixed by its tag:
\* version -> verack, inv(invs) -> getdata(invs) with the same inventory list,
\* ping(n) -> pong(n), and nothing for verack, addr, block, headers, getdata,
\* notfound, getblocks, getheaders and pong; the blockchain changes only for
\* block(b), to what add_block(b) makes of it, the UTXO set never, and a
\* headers message changes neither and leaves the checkpoint files alone.
C23_IdleReplies ==
  [][(state = "Idle" /\ WorkerStep) =>
       /\ inbox # <<>> /\ inbox' = Tail(inbox)
       /\ LET m == Head(inbox) IN
            /\ Len(sentNow') <= 1
            /\ m.tag = "version" => sentNow' = <<Msg("verack", <<>>)>>
            /\ m.tag = "inv" => sentNow' = <<Msg("getdata", m.arg)>>
            /\ m.tag = "ping" => sentNow' = <<Msg("pong", m.arg)>>
            /\ m.tag \in SilentTags => sentNow' = <<>>
            /\ m.tag \in SilentTags \cup {"version", "inv", "ping"}
            /\ blockchain' = IF m.tag = "block" THEN AddBlock(blockchain, m.arg[1])
                             ELSE blockchain
            /\ utxo_set' = utxo_set
            /\ m.tag = "headers" => UNCHANGED <<blockchain, utxo_set, disk, state>>]_vars

\* Idle has answered an inv with a getdata for the same inventory, and the
\* blockchain lacks the block announced.
C23_Witness ==
  /\ state = "Idle"
  /\ sentNow = <<Msg("getdata", <<3>>)>>
  /\ 3 \notin blockchain.nodes

\* C27: once Idle is reached no step changes the UTXO set, enters another
\* phase or writes a checkpoint file (a block message changes the blockchain
\* only); Idle was entered by one SaveToDisk, so in Idle each file is the one
\* found at start or the one that SaveToDisk wrote, and a UTXO set file so
\* written holds the UTXO set, with its last_hash, as it still is.
C27_IdleFrame ==
  /\ [][state = "Idle" =>
          /\ state' = "Idle"
          /\ utxo_set' = utxo_set
          /\ disk' = disk
          /\ writes' = writes]_vars
  /\ [](state = "Idle" =>
          /\ writes = <<"blockchain", "utxo_set">>
          /\ disk.utxo_set \in {File(FALSE, NoUtxoSet), File(TRUE, CkptUtxoSet),
                                File(TRUE, utxo_set)}
          /\ (~loaded[2] /\ disk.utxo_set.ok) => disk.utxo_set.val = utxo_set)

\* In Idle, after both files were written from scratch, a block message has
\* extended the blockchain beyond its checkpoint; the UTXO set is the saved one.
C27_Witness ==
  /\ state = "Idle"
  /\ loaded = <<FALSE, FALSE>>
  /\ disk.blockchain.ok /\ disk.utxo_set.ok
  /\ disk.blockchain.val.nodes # blockchain.nodes
  /\ disk.blockchain.val.nodes \subseteq blockchain.nodes
  /\ disk.utxo_set.val = utxo_set

\* The blocks of the best chain past the hash the pass started from, oldest
\* first.
PastLastHash ==
  LET best == Reverse(PathToGenesis(blockchain.tip))
  IN SubSeq(best, Height(pass.from) + 2, Len(best))

\* The hashes passed to utxo_set.update in the pass, in call order.
PassApplied == [i \in DOMAIN pass.calls |-> pass.calls[i].hash]

\* C24: when a forward pass from a last_hash on the best chain ends with every
\* requested block delivered and every update successful, with k blocks on the
\* best chain past last_hash, it has sent exactly k div UTXO_SYNC_N_BLOCKS
\* getdata batches, the i-th carrying the i-th UTXO_SYNC_N_BLOCKS of those
\* blocks, and has applied exactly the blocks of these batches, in order; the
\* trailing k mod UTXO_SYNC_N_BLOCKS blocks were neither requested nor applied
\* and last_hash stops before them, yet the phase goes on towards SaveToDisk
\* and not back to SyncBlockchain.
C24_FullBatchesOnly ==
  [][(WorkerStep /\ ForwardPassSucceeded /\ events = {}
        /\ OnMainChain(blockchain, pass.from)) =>
       LET k == Len(PastLastHash)
           n == k \div UTXO_SYNC_N_BLOCKS
           full == n * UTXO_SYNC_N_BLOCKS
           trailing == SubSeq(PastLastHash, full + 1, k)
       IN /\ Len(pass.batches) = n
          /\ \A i \in 1..n :
               pass.batches[i] = SubSeq(PastLastHash, (i - 1) * UTXO_SYNC_N_BLOCKS + 1,
                                        i * UTXO_SYNC_N_BLOCKS)
          /\ PassApplied = SubSeq(PastLastHash, 1, full)
          /\ \A i \in DOMAIN pass.calls : pass.calls[i].ok
          /\ Len(trailing) = k % UTXO_SYNC_N_BLOCKS
          /\ \A i \in DOMAIN trailing :
               /\ \A j \in DOMAIN pass.batches : trailing[i] \notin Range(pass.batches[j])
               /\ trailing[i] \notin Range(PassApplied)
          /\ utxo_set.last_hash = IF full = 0 THEN pass.from ELSE PastLastHash[full]
          /\ utxo_set' = utxo_set
          /\ state' = "SaveToDisk" \/ (state' = "SyncUtxoSet" /\ pc' = "body")]_vars

\* A pass over three blocks past last_hash has requested and applied one batch
\* of two and is about to end with the third block left in the iteration.
C24_Witness ==
  /\ ForwardPassSucceeded /\ events = {}
  /\ OnMainChain(blockchain, pass.from)
  /\ Len(pass.batches) = 1
  /\ Len(PastLastHash) % UTXO_SYNC_N_BLOCKS = 1
  /\ iter = <<blockchain.tip>>
  /\ utxo_set.last_hash # blockchain.tip

\* ------------------------------------------------ a run with two batches
\* Messages the peer delivers in a run that starts from the long checkpoint.
MaxLongMsgs == 5

\* What the peer serves then: the end of the headers, the blocks of the long
\* chain, and notfound.
LongMessages ==
  {Msg("headers", <<>>), Msg("notfound", <<>>)}
  \cup {Msg("block", <<b>>) : b \in LongChain.nodes \ {Genesis}}

LongPeerDeliver ==
  /\ ret = "running"
  /\ state # "Init"
  /\ nDelivered < MaxLongMsgs
  /\ Len(inbox) < InboxCap
  /\ \E m \in LongMessages :
       inbox' = Append(inbox, [seq |-> nDelivered + 1, tag |-> m.tag, arg |-> m.arg])
  /\ nDelivered' = nDelivered + 1
  /\ UNCHANGED <<state, pc, ret, idleVars, disk, localVars, sentNow, nHanded,
                 lastHanded, histVars>>
  /\ UNCHANGED <<idleErrs, passVars, rpcVars>>

\* The node starts with the long blockchain checkpoint on disk, and with the
\* UTXO set checkpoint of block 2 or none.
LongInit ==
  /\ state = "Init"
  /\ pc = "run"
  /\ ret = "running"
  /\ blockchain = NoChain
  /\ utxo_set = NoUtxoSet
  /\ inbox = <<>>
  /\ disk \in [blockchain : {File(TRUE, LongChain)},
               utxo_set : {File(FALSE, NoUtxoSet), File(TRUE, CkptUtxoSet)}]
  /\ failed = FALSE
  /\ cache = <<>>
  /\ iter = <<>>
  /\ block_count = 0
  /\ recv_data = <<>>
  /\ inv_to_add_data = <<>>
  /\ nDelivered = 0
  /\ sentNow = <<>>
  /\ nHanded = 0
  /\ lastHanded = 0
  /\ loaded = <<FALSE, FALSE>>
  /\ firstReply = "none"
  /\ pingRun = NoRun
  /\ events = {}
  /\ updateCalls = <<>>
  /\ lastBatch = NoBatch
  /\ bodyReplies = <<>>
  /\ writes = <<>>
  /\ idleErrs = {}
  /\ pruneErrs = {}
  /\ pass = NoPass
  /\ config = [coinjoin_on |-> FALSE]
  /\ coinjoin = NoServer
  /\ wallet = {}
  /\ readers = 0
  /\ rpcPc = "idle"
  /\ rpcReq = NoRequest
  /\ rpcCalled = NoCall
  /\ rpcUpdated = FALSE
  /\ rpcResult = NoResult

LongNext ==
  \/ LongPeerDeliver
  \/ StartInit
  \/ LoadFromDisk
  \/ SendGetHeaders
  \/ HeadersPump
  \/ UtxoSetBegin
  \/ UtxoForwardBatch
  \/ BatchPump
  \/ BatchApply
  \/ UtxoFailed
  \/ UtxoPrune
  \/ BodyPump
  \/ SaveToDisk
  \/ Idle

LongSpec == LongInit /\ [][LongNext]_vars

\* The forward loop is between two batches with nodes enough left for another.
MoreBatches ==
  /\ state = "SyncUtxoSet" /\ pc = "forward"
  /\ Len(cache) + Len(iter) >= UTXO_SYNC_N_BLOCKS

\* C25: a failure in a batch of the forward pass does not stop the pass: the
\* step that applies a batch passes every requested block that was received to
\* utxo_set.update, those after a failed one included, and stays in the pass;
\* while nodes enough for a batch are left the next step requests them with a
\* getdata, failed or not; the batch is awaited until UTXO_SYNC_N_BLOCKS
\* replies are counted and is then applied; SyncBlockchain is entered only
\* when the iteration has ended, with every full batch of the chain requested.
C25_FailedPassRunsOn ==
  [][WorkerStep =>
       /\ (state = "SyncUtxoSet" /\ pc = "apply") =>
            /\ [i \in DOMAIN updateCalls' |-> updateCalls'[i].hash]
                 = SelectIn(cache, Range(recv_data))
            /\ pass'.calls = pass.calls \o updateCalls'
            /\ state' = "SyncUtxoSet" /\ pc' = "forward"
            /\ iter' = iter
            /\ failed => failed'
       /\ MoreBatches =>
            /\ sentNow' = <<Msg("getdata", SubSeq(cache \o iter, 1, UTXO_SYNC_N_BLOCKS))>>
            /\ state' = "SyncUtxoSet" /\ pc' = "batch"
            /\ failed' = failed
       /\ (state = "SyncUtxoSet" /\ pc = "batch") =>
            /\ state' = "SyncUtxoSet"
            /\ pc' = IF block_count' < UTXO_SYNC_N_BLOCKS THEN "batch" ELSE "apply"
            /\ iter' = iter /\ cache' = cache
       /\ (state = "SyncUtxoSet" /\ state' = "SyncBlockchain") =>
            /\ pc = "forward" /\ ~MoreBatches
            /\ Len(pass.batches) = Len(pass.chain) \div UTXO_SYNC_N_BLOCKS
            /\ \A i \in DOMAIN pass.batches :
                 pass.batches[i] = SubSeq(pass.chain, (i - 1) * UTXO_SYNC_N_BLOCKS + 1,
                                          i * UTXO_SYNC_N_BLOCKS)]_vars

\* The first update of the first batch failed; the second block of that batch
\* and both blocks of the second batch were still passed to update.
C25_Witness ==
  /\ state = "SyncUtxoSet" /\ pc = "forward" /\ failed
  /\ pass.batches = <<<<1, 2>>, <<3, 6>>>>
  /\ PassApplied = <<1, 2, 3, 6>>
  /\ ~pass.calls[1].ok

\* ------------------------------------------- a run with a peer that answers
\* The blocks waiting in the inbox.
InboxBlocks == {inbox[i].arg[1] : i \in {j \in DOMAIN inbox : inbox[j].tag = "block"}}

\* What the peer owes the worker: a `headers` reply to the getheaders it waits
\* on (a non-empty one only among the first MaxMsgs deliveries, so that an
\* empty one comes in the end), and a block for each hash of the getdata it
\* waits on that has not been delivered yet.
Awaited ==
  CASE state = "SyncBlockchain" /\ pc = "wait" ->
         IF \E i \in DOMAIN inbox : inbox[i].tag = "headers" THEN {}
         ELSE {Msg("headers", hs) : hs \in {h \in HeaderLists : h = <<>> \/ nDelivered < MaxMsgs}}
    [] state = "SyncUtxoSet" /\ pc = "batch" ->
         {Msg("block", <<b>>) : b \in Range(cache) \ (Range(recv_data) \cup InboxBlocks)}
    [] state = "SyncUtxoSet" /\ pc = "body" ->
         {Msg("block", <<b>>) :
            b \in Range(inv_to_add_data) \ (Range(bodyReplies) \cup InboxBlocks)}
    [] OTHER -> {}

\* The peer answers a request of the worker.
PeerAnswers ==
  /\ ret = "running"
  /\ Len(inbox) < InboxCap
  /\ \E m \in Awaited :
       inbox' = Append(inbox, [seq |-> nDelivered + 1, tag |-> m.tag, arg |-> m.arg])
  /\ nDelivered' = nDelivered + 1
  /\ UNCHANGED <<state, pc, ret, idleVars, disk, localVars, sentNow, nHanded,
                 lastHanded, histVars>>
  /\ UNCHANGED <<idleErrs, passVars, rpcVars>>

\* The peer sends a ping of its own.
PeerPings ==
  /\ ret = "running"
  /\ state # "Init"
  /\ nDelivered < MaxMsgs
  /\ Len(inbox) < InboxCap
  /\ \E n \in Nonces :
       inbox' = Append(inbox, [seq |-> nDelivered + 1, tag |-> "ping", arg |-> <<n>>])
  /\ nDelivered' = nDelivered + 1
  /\ UNCHANGED <<state, pc, ret, idleVars, disk, localVars, sentNow, nHanded,
                 lastHanded, histVars>>
  /\ UNCHANGED <<idleErrs, passVars, rpcVars>>

\* self.start() opens the socket.
StartInitOk == StartInit /\ ret' = "running"

\* Every utxo_set.update of the batch returns true.
BatchApplyOk == BatchApply /\ \A i \in DOMAIN updateCalls' : updateCalls'[i].ok

\* The steps of the thread that runs listen().
LiveWorker ==
  \/ StartInitOk
  \/ LoadFromDisk
  \/ SendGetHeaders
  \/ HeadersPump
  \/ UtxoSetBegin
  \/ UtxoForwardBatch
  \/ BatchPump
  \/ BatchApplyOk
  \/ UtxoPrune
  \/ BodyPump
  \/ SaveToDisk
  \/ Idle

LiveNext ==
  \/ PeerAnswers
  \/ PeerPings
  \/ StartInitOk
  \/ LoadFromDisk
  \/ SendGetHeaders
  \/ HeadersPump
  \/ UtxoSetBegin
  \/ UtxoForwardBatch
  \/ BatchPump
  \/ BatchApplyOk
  \/ UtxoPrune
  \/ BodyPump
  \/ SaveToDisk
  \/ Idle

\* The thread runs whenever it can take a step (recv() returns when a message
\* is there); the peer answers in the end.
LiveSpec ==
  Init /\ [][LiveNext]_vars /\ WF_vars(LiveWorker) /\ WF_vars(PeerAnswers)

\* C26: when the socket opens, the peer answers every getheaders with a
\* headers message, in the end an empty one, and every getdata with the blocks
\* requested, and every update succeeds, the machine reaches Idle, having gone
\* through SaveToDisk once, and the forward pass is never marked failed.
C26_ReachesIdle ==
  /\ <>(state = "Idle" /\ writes = <<"blockchain", "utxo_set">>)
  /\ [](~failed)

\* Idle after a run that loaded the blockchain checkpoint only, took the header
\* of block 3, applied the batch of blocks 1 and 2 and fetched the body of
\* block 3.
C26_Witness ==
  /\ state = "Idle"
  /\ loaded = <<TRUE, FALSE>>
  /\ blockchain.tip = 3 /\ 3 \in blockchain.txdata
  /\ utxo_set.last_hash = 2
  /\ writes = <<"blockchain", "utxo_set">>
====
